---------------------------- MODULE Spec2Model ----------------------------
(***************************************************************************)
(* A model of the helper library under src/utils: the file module          *)
(* (file_utils.py), the network module (network_utils.py), the data module *)
(* (data_utils.py), the text module (text_utils.py), the datetime module   *)
(* (datetime_utils.py), the PDF module (pdf_utils.py) and the commands     *)
(* module (command_utils.py).  The library is single-threaded: at most one *)
(* call runs at a time.  Each module has its own specification             *)
(* (SpecData, ...); the variables of the other modules stay idle in it.    *)
(* move_files, get_file_size and the case conversions of the text module   *)
(* have specifications of their own (SpecMove, SpecSize, SpecCase).        *)
(*                                                                         *)
(* Python strings are modelled as sequences of one-character strings, so   *)
(* that concatenation, emptiness and substring tests are computed.         *)
(***************************************************************************)
EXTENDS Integers, Sequences, FiniteSets, TLC

VARIABLES
    fs,         \* the file system: path -> entry
    fileCall,   \* file module: the call in progress or just finished
    defaultTimeout, \* network module: the process-wide default socket timeout
    sockets,    \* network module: the sockets that are open
    netCall,    \* network module: the last call and its outcome
    dataCall,   \* data module: the call in progress or just finished
    textCall,   \* text module: the call in progress or just finished
    now,        \* datetime module: the clock that datetime.now() reads
    timeCall,   \* datetime module: the last call and its result
    installed,  \* PDF module: the third-party packages that are installed
    modules,    \* PDF module: the modules imported so far (sys.modules)
    pdfDir,     \* PDF module: the files of the output directory
    pdfDirExists, \* PDF module: whether the output directory exists
    pdfCall,    \* PDF module: the call in progress or just finished
    catalogs,   \* commands module: the catalogs returned so far, by identity
    cmdCall     \* commands module: the last call and its result

fileVars == <<fs, fileCall>>
netVars == <<defaultTimeout, sockets, netCall>>
textVars == <<textCall>>
timeVars == <<now, timeCall>>
pdfVars == <<installed, modules, pdfDir, pdfDirExists, pdfCall>>
cmdVars == <<catalogs, cmdCall>>

vars == <<fileVars, netVars, dataCall, textVars, timeVars, pdfVars, cmdVars>>

nonFileVars == <<netVars, dataCall, textVars, timeVars, pdfVars, cmdVars>>
nonNetVars == <<fileVars, dataCall, textVars, timeVars, pdfVars, cmdVars>>
nonDataVars == <<fileVars, netVars, textVars, timeVars, pdfVars, cmdVars>>
nonTextVars == <<fileVars, netVars, dataCall, timeVars, pdfVars, cmdVars>>
nonTimeVars == <<fileVars, netVars, dataCall, textVars, pdfVars, cmdVars>>
nonPdfVars == <<fileVars, netVars, dataCall, textVars, timeVars, cmdVars>>
nonCmdVars == <<fileVars, netVars, dataCall, textVars, timeVars, pdfVars>>

(***************************************************************************)
(* Python values                                                           *)
(***************************************************************************)
\* The empty string, which Python treats as false in a condition.
EmptyStr == <<>>

\* s[i:] and s[:n] of a Python sequence (1-based here).
RECURSIVE DropFirst(_, _)
DropFirst(s, n) == IF n = 0 \/ s = <<>> THEN s ELSE DropFirst(Tail(s), n - 1)

Take(s, n) == [i \in 1..(IF n < Len(s) THEN n ELSE Len(s)) |-> s[i]]

\* sub in s, for Python strings: the empty string is in every string.
Contains(s, sub) ==
    \E i \in 0..Len(s) : i + Len(sub) <= Len(s) /\ Take(DropFirst(s, i), Len(sub)) = sub

\* Every sequence over S of length at most n.
RECURSIVE SeqsUpTo(_, _)
SeqsUpTo(S, n) ==
    IF n = 0 THEN {<<>>}
    ELSE {<<>>} \cup { <<x>> \o s : x \in S, s \in SeqsUpTo(S, n - 1) }

\* A dict is the sequence of its items <<key, value>> in insertion order, the
\* keys distinct.  A value is tagged: an int, a list (a non-mapping container)
\* or a nested dict.
IntVal(n) == [t |-> "int", v |-> <<n>>]
ListVal(l) == [t |-> "list", v |-> l]
DictVal(d) == [t |-> "dict", v |-> d]

KeysOf(d) == {d[i][1] : i \in 1..Len(d)}

HasKey(d, k) == k \in KeysOf(d)

\* d[k] for a key of d.
Lookup(d, k) == d[CHOOSE i \in 1..Len(d) : d[i][1] = k][2]

\* d[k] = v: an existing key keeps its position and takes the new value, a new
\* key is appended.
DictSet(d, k, v) ==
    IF HasKey(d, k)
    THEN [i \in 1..Len(d) |-> IF d[i][1] = k THEN <<k, v>> ELSE d[i]]
    ELSE Append(d, <<k, v>>)

\* dict(items) and dict.update(items): the items are stored in order, so a
\* later item with the same key overwrites the earlier one.
RECURSIVE DictUpdate(_, _)
DictUpdate(d, items) ==
    IF items = <<>> THEN d
    ELSE DictUpdate(DictSet(d, items[1][1], items[1][2]), Tail(items))

DictOfItems(items) == DictUpdate(<<>>, items)

(***************************************************************************)
(* Paths and the file system                                               *)
(***************************************************************************)
Sep == <<"/">>

StartsWith(s, pre) == Len(pre) <= Len(s) /\ Take(s, Len(pre)) = pre

\* str.endswith(suffix)
EndsWith(s, suffix) ==
    Len(suffix) <= Len(s) /\ DropFirst(s, Len(s) - Len(suffix)) = suffix

\* os.path.join(a, b)
join(a, b) ==
    IF StartsWith(b, Sep) THEN b
    ELSE IF a = EmptyStr \/ EndsWith(a, Sep) THEN a \o b
    ELSE a \o Sep \o b

\* os.path.basename(p): what follows the last "/".
RECURSIVE basename(_)
basename(p) ==
    IF \E i \in 1..Len(p) : p[i] = "/" THEN basename(Tail(p)) ELSE p

\* os.path.dirname(p), for a path without a trailing "/".
dirname(p) == Take(p, Len(p) - Len(basename(p)) - 1)

\* os.path.relpath(p, start) for a path p below start.
relpath(p, start) == DropFirst(p, Len(start) + 1)

IsUnder(p, dir) == StartsWith(p, dir \o Sep)

SDir == <<"s">>
TDir == <<"t">>
DDir == <<"d">>
SX == join(SDir, <<"x">>)
SY == join(SDir, <<"y">>)
SYZ == join(SY, <<"z">>)
TX == join(TDir, <<"x">>)
DX == join(DDir, <<"x">>)
DY == join(DDir, <<"y">>)
DYY == join(DY, <<"y">>)
AZip == <<"a", ".", "z", "i", "p">>
ATgz == <<"a", ".", "t", "g", "z">>
ATar == <<"a", ".", "t", "a", "r">>
AUpper == <<"a", ".", "Z", "I", "P">>
Missing == <<"q">>

\* Every path the calls of the model can touch.
AllPaths ==
    {SDir, SX, SY, SYZ, TDir, TX, DDir, DX, DY, join(DY, <<"z">>),
     join(DDir, <<"z">>), AZip, ATgz, ATar, AUpper,
     join(DDir, SDir), join(DDir, SX), join(DDir, SY), join(DDir, SYZ),
     DYY, join(DYY, <<"z">>)}

\* What a path holds: nothing, a directory, or a file with its bytes.  The
\* bytes of an archive are its format and its set of members.
Absent == [kind |-> "absent", data |-> "", members |-> {}]
DirEntry == [kind |-> "dir", data |-> "", members |-> {}]
File(c) == [kind |-> "file", data |-> c, members |-> {}]
Archive(fmt, ms) == [kind |-> "file", data |-> fmt, members |-> ms]

\* os.path.exists(p)
exists(f, p) == p \in DOMAIN f /\ f[p].kind # "absent"

isdir(f, p) == p \in DOMAIN f /\ f[p].kind = "dir"

\* The directories above p, up to the root of the relative path.
RECURSIVE Ancestors(_)
Ancestors(p) ==
    IF dirname(p) = EmptyStr THEN {} ELSE {dirname(p)} \cup Ancestors(dirname(p))

\* A variant of os.makedirs that creates nothing.
makedirs_nothing(f, p) == f

\* os.makedirs(p): p and the directories above it.
makedirs(f, p) ==
    [q \in DOMAIN f |-> IF q = p \/ q \in Ancestors(p) THEN DirEntry ELSE f[q]]

isfile(f, p) == p \in DOMAIN f /\ f[p].kind = "file"

\* The file systems a call can start from: s and t are directories, s/y may
\* be a file, an empty directory or a directory with one file; d may be
\* missing; a.zip may be a file that is no archive.
InitFileSystems ==
    { [p \in AllPaths |->
          CASE p = SDir -> DirEntry
            [] p = TDir -> DirEntry
            [] p = SX -> sx
            [] p = SY -> sy[1]
            [] p = SYZ -> sy[2]
            [] p = TX -> tx
            [] p = DDir -> d[1]
            [] p = DX -> d[2]
            [] p = AZip -> az
            [] OTHER -> Absent] :
        sx \in {Absent, File("c1")},
        sy \in {<<Absent, Absent>>, <<File("c2"), Absent>>, <<DirEntry, Absent>>,
                <<DirEntry, File("c1")>>},
        tx \in {Absent, File("c2")},
        d \in {<<Absent, Absent>>, <<DirEntry, Absent>>, <<DirEntry, File("c3")>>},
        az \in {Absent, File("c1")} }

(***************************************************************************)
(* File module: copy_files                                                 *)
(***************************************************************************)
MaxSources == 2     \* paths of one batch

Idle == [op |-> "none", pc |-> "idle", ret |-> "pending", raised |-> FALSE]

BatchPaths == {SX, SY, TX, DX}

\* if os.path.exists(dest_path) and not overwrite: skip
copy_never_skips(f, dest_path, overwrite) == FALSE

copy_skips(f, dest_path, overwrite) == exists(f, dest_path) /\ ~overwrite

\* Whether shutil.copy2(src, dst) raises: the source is a directory
\* (IsADirectoryError), or source and destination are one file (SameFileError).
copy2_raises(f, src, dst) == isdir(f, src) \/ src = dst

\* A variant of shutil.copy2 that empties the directory of dst first.
copy2_into_emptied_directory(f, src, dst) ==
    [q \in DOMAIN f |->
        IF q = dst THEN f[src]
        ELSE IF IsUnder(q, dirname(dst)) THEN Absent ELSE f[q]]

\* shutil.copy2(src, dst) on a file src: dst takes its bytes and metadata.
copy2(f, src, dst) == [f EXCEPT ![dst] = f[src]]

CopyFilesCall ==
    /\ fileCall.pc = "idle"
    /\ \E source_paths \in SeqsUpTo(BatchPaths, MaxSources), overwrite \in BOOLEAN :
          /\ fileCall' = [op |-> "copy_files", pc |-> "loop", ret |-> "pending",
                          raised |-> FALSE, source_paths |-> source_paths,
                          destination_dir |-> DDir, overwrite |-> overwrite,
                          i |-> 1, copied_count |-> 0, start |-> fs]
          /\ fs' = IF exists(fs, DDir) THEN fs ELSE makedirs(fs, DDir)
    /\ UNCHANGED nonFileVars

\* One pass of the loop over source_paths.
CopyFilesItem ==
    /\ fileCall.op = "copy_files"
    /\ fileCall.pc = "loop"
    /\ fileCall.i <= Len(fileCall.source_paths)
    /\ LET source_path == fileCall.source_paths[fileCall.i]
           dest_path == join(fileCall.destination_dir, basename(source_path))
       IN  IF ~exists(fs, source_path) \/ copy_skips(fs, dest_path, fileCall.overwrite)
           THEN /\ fileCall' = [fileCall EXCEPT !.i = @ + 1]
                /\ fs' = fs
           ELSE IF copy2_raises(fs, source_path, dest_path)
           THEN /\ fileCall' = [fileCall EXCEPT !.pc = "done", !.ret = "False",
                                                !.raised = TRUE]
                /\ fs' = fs
           ELSE /\ fileCall' = [fileCall EXCEPT !.i = @ + 1, !.copied_count = @ + 1]
                /\ fs' = copy2(fs, source_path, dest_path)
    /\ UNCHANGED nonFileVars

CopyFilesReturn ==
    /\ fileCall.op = "copy_files"
    /\ fileCall.pc = "loop"
    /\ fileCall.i > Len(fileCall.source_paths)
    /\ fileCall' = [fileCall EXCEPT !.pc = "done", !.ret = "True"]
    /\ UNCHANGED <<fs, nonFileVars>>

(***************************************************************************)
(* File module: move_files                                                 *)
(***************************************************************************)
\* The file systems a move_files call can start from: those of the other
\* calls, and those in which d/y is a directory already, empty or with an
\* entry y.
MoveFileSystems ==
    InitFileSystems \cup
    {[f EXCEPT ![DY] = DirEntry, ![DYY] = dyy] :
        f \in {g \in InitFileSystems : isdir(g, DDir)},
        dyy \in {Absent, File("c3")}}

\* The entry at p with everything below it.
subtree(f, p) ==
    [root |-> f[p],
     below |-> {<<relpath(q, p), f[q]>> :
                   q \in {r \in DOMAIN f : IsUnder(r, p) /\ f[r].kind # "absent"}}]

\* A variant of os.rename that leaves the source where it is.
rename_keeping_source(f, src, dst) ==
    IF src = dst THEN f
    ELSE [q \in DOMAIN f |->
            IF q = dst THEN f[src]
            ELSE IF IsUnder(q, dst)
            THEN IF src \o DropFirst(q, Len(dst)) \in DOMAIN f
                 THEN f[src \o DropFirst(q, Len(dst))] ELSE Absent
            ELSE f[q]]

\* os.rename(src, dst): dst becomes what src was, with everything below it,
\* and src is gone; renaming a path to itself changes nothing.
rename(f, src, dst) ==
    IF src = dst THEN f
    ELSE [q \in DOMAIN f |->
            IF q = dst THEN f[src]
            ELSE IF IsUnder(q, dst)
            THEN IF src \o DropFirst(q, Len(dst)) \in DOMAIN f
                 THEN f[src \o DropFirst(q, Len(dst))] ELSE Absent
            ELSE IF q = src \/ IsUnder(q, src) THEN Absent
            ELSE f[q]]

\* Where shutil.move(src, dst) puts src: into dst when dst is a directory
\* other than src itself, at dst otherwise.
real_dst(f, src, dst) ==
    IF isdir(f, dst) /\ src # dst THEN join(dst, basename(src)) ELSE dst

\* Whether shutil.move(src, dst) raises: the place inside the directory dst is
\* taken (shutil.Error), or a directory is moved onto a file.
move_raises(f, src, dst) ==
    \/ isdir(f, dst) /\ src # dst /\ exists(f, join(dst, basename(src)))
    \/ isfile(f, dst) /\ isdir(f, src)

\* shutil.move(src, dst)
move(f, src, dst) == rename(f, src, real_dst(f, src, dst))

\* The field log is bookkeeping of the model: for each pass, what it did and
\* what the source and the destination path held when it began.
MoveFilesCall ==
    /\ fileCall.pc = "idle"
    /\ \E source_paths \in SeqsUpTo(BatchPaths, MaxSources), overwrite \in BOOLEAN :
          /\ fileCall' = [op |-> "move_files", pc |-> "loop", ret |-> "pending",
                          raised |-> FALSE, source_paths |-> source_paths,
                          destination_dir |-> DDir, overwrite |-> overwrite,
                          i |-> 1, moved_count |-> 0, log |-> <<>>]
          /\ fs' = IF exists(fs, DDir) THEN fs ELSE makedirs(fs, DDir)
    /\ UNCHANGED nonFileVars

\* One pass of the loop over source_paths.
MoveFilesItem ==
    /\ fileCall.op = "move_files"
    /\ fileCall.pc = "loop"
    /\ fileCall.i <= Len(fileCall.source_paths)
    /\ LET source_path == fileCall.source_paths[fileCall.i]
           dest_path == join(fileCall.destination_dir, basename(source_path))
           pass(outcome) == [outcome |-> outcome,
                             source |-> subtree(fs, source_path),
                             dest |-> subtree(fs, dest_path)]
       IN  IF ~exists(fs, source_path)
           THEN /\ fileCall' = [fileCall EXCEPT !.i = @ + 1,
                                   !.log = Append(@, pass("missing"))]
                /\ fs' = fs
           ELSE IF exists(fs, dest_path) /\ ~fileCall.overwrite
           THEN /\ fileCall' = [fileCall EXCEPT !.i = @ + 1,
                                   !.log = Append(@, pass("skipped"))]
                /\ fs' = fs
           ELSE IF move_raises(fs, source_path, dest_path)
           THEN /\ fileCall' = [fileCall EXCEPT !.pc = "done", !.ret = "False",
                                                !.raised = TRUE]
                /\ fs' = fs
           ELSE /\ fileCall' = [fileCall EXCEPT !.i = @ + 1, !.moved_count = @ + 1,
                                   !.log = Append(@, pass("moved"))]
                /\ fs' = move(fs, source_path, dest_path)
    /\ UNCHANGED nonFileVars

MoveFilesReturn ==
    /\ fileCall.op = "move_files"
    /\ fileCall.pc = "loop"
    /\ fileCall.i > Len(fileCall.source_paths)
    /\ fileCall' = [fileCall EXCEPT !.pc = "done", !.ret = "True"]
    /\ UNCHANGED <<fs, nonFileVars>>

(***************************************************************************)
(* File module: get_file_size                                              *)
(***************************************************************************)
\* A byte count is written in base 1024, most significant digit first and
\* without leading zeros (the empty sequence is 0): the counts of the model
\* go beyond the integers of the model checker.  Only the three leading
\* digits of a count are free, the others are 0, so every count is a float
\* without rounding, as is every quotient by 1024.
MaxDigits == 7      \* base-1024 digits of a byte count

SizeDigits == {0, 1, 128, 1019, 1023}

Zeros(n) == [i \in 1..n |-> 0]

Sizes ==
    {<<>>} \cup
    {<<a>> : a \in SizeDigits \ {0}} \cup
    {<<a, b>> : a \in SizeDigits \ {0}, b \in SizeDigits} \cup
    {<<a, b, c>> \o Zeros(n) :
        a \in SizeDigits \ {0}, b \in SizeDigits, c \in SizeDigits,
        n \in 0..(MaxDigits - 3)}

\* The file systems of get_file_size: s/x is a file, given by its number of
\* bytes.
SizeFileSystems ==
    {[p \in AllPaths |->
         IF p = SDir THEN DirEntry ELSE IF p = SX THEN File(n) ELSE Absent] :
        n \in Sizes}

\* os.path.getsize(file_path)
getsize(f, file_path) == f[file_path].data

RECURSIVE Pow1024(_)
Pow1024(k) == IF k = 0 THEN 1 ELSE 1024 * Pow1024(k - 1)

\* The integer that the digits write.
RECURSIVE ToInt(_)
ToInt(digits) ==
    IF digits = <<>> THEN 0
    ELSE 1024 * ToInt(Take(digits, Len(digits) - 1)) + digits[Len(digits)]

\* The digits without the zeros at their end.
RECURSIVE Trimmed(_)
Trimmed(digits) ==
    IF digits # <<>> /\ digits[Len(digits)] = 0
    THEN Trimmed(Take(digits, Len(digits) - 1)) ELSE digits

\* A float: its integer part and the digits of its fraction, base 1024.
Float(whole, frac) == [whole |-> whole, frac |-> frac]

\* size_bytes /= 1024.0
div1024(x) ==
    Float(Take(x.whole, Len(x.whole) - 1),
          <<x.whole[Len(x.whole)]>> \o x.frac)

\* size_bytes < 1024.0
below1024(x) == Len(x.whole) <= 1

\* A variant of hundredths that cuts the digits after the second.
hundredths_cut(frac) ==
    (100 * ToInt(Trimmed(frac))) \div Pow1024(Len(Trimmed(frac)))

\* The hundredths of the fraction, rounded to the nearest and to the even one
\* of two nearest, as the format '.2f' rounds the exact value of the float.
hundredths(frac) ==
    LET digits == Trimmed(frac)
        d == Pow1024(Len(digits))
        x == 100 * ToInt(digits)
        q == x \div d
        r == x % d
    IN  IF 2 * r > d \/ (2 * r = d /\ q % 2 = 1) THEN q + 1 ELSE q

\* f"{size_bytes:.2f} {unit}": the integer part and the two decimals that
\* are printed, and the unit.
two_decimals(x, unit) ==
    LET h == hundredths(x.frac)
    IN  [whole |-> ToInt(x.whole) + h \div 100, cents |-> h % 100, unit |-> unit]

Units == <<"B", "KB", "MB", "GB", "TB">>

\* The loop over the units, from the unit of index k on.
RECURSIVE human_readable_from(_, _)
human_readable_from(x, k) ==
    IF k > Len(Units) THEN two_decimals(x, "PB")
    ELSE IF below1024(x) THEN two_decimals(x, Units[k])
    ELSE human_readable_from(div1024(x), k + 1)

GetFileSize ==
    /\ fileCall.pc = "idle"
    /\ \E file_path \in {SX, Missing}, human_readable \in BOOLEAN :
          LET call == [op |-> "get_file_size", pc |-> "done", ret |-> "None",
                       raised |-> FALSE, file_path |-> file_path,
                       human_readable |-> human_readable, value |-> <<>>]
          IN  IF ~exists(fs, file_path)
              THEN fileCall' = call
              ELSE IF ~human_readable
              THEN fileCall' = [call EXCEPT !.ret = "int",
                                            !.value = getsize(fs, file_path)]
              ELSE fileCall' =
                      [call EXCEPT !.ret = "str",
                          !.value = human_readable_from(
                                        Float(getsize(fs, file_path), <<>>), 1)]
    /\ UNCHANGED <<fs, nonFileVars>>

(***************************************************************************)
(* File module: delete_files                                               *)
(***************************************************************************)
DeletePaths == {SX, SY, TX, Missing}

\* What the user types at the prompt; EndOfInput stands for a closed standard
\* input, on which input() raises EOFError.
EndOfInput == <<"EOF">>

Responses == {<<"y">>, <<"Y">>, <<"n">>, <<"y", "e", "s">>, EmptyStr, EndOfInput}

\* str.lower()
lower(text) ==
    [i \in 1..Len(text) |->
        CASE text[i] = "Y" -> "y"
          [] text[i] = "N" -> "n"
          [] OTHER -> text[i]]

\* response = input(...).lower(); if response != 'y': cancel
cancels_only_on_n(response) == lower(response) = <<"n">>

cancels(response) == lower(response) # <<"y">>

\* What the cancelled call returns.
cancel_returns_true == "True"

cancel_returns == "False"

DeleteFilesCall ==
    /\ fileCall.pc = "idle"
    /\ \E file_paths \in SeqsUpTo(DeletePaths, MaxSources), confirm \in BOOLEAN :
       \E response \in IF confirm THEN Responses ELSE {EmptyStr} :
          LET call == [op |-> "delete_files", pc |-> "loop", ret |-> "pending",
                       raised |-> FALSE, file_paths |-> file_paths,
                       confirm |-> confirm, response |-> response,
                       i |-> 1, deleted_count |-> 0]
          IN  fileCall' =
                 IF confirm /\ response = EndOfInput
                 THEN [call EXCEPT !.pc = "done", !.ret = "False", !.raised = TRUE]
                 ELSE IF confirm /\ cancels(response)
                 THEN [call EXCEPT !.pc = "done", !.ret = cancel_returns]
                 ELSE call
    /\ UNCHANGED <<fs, nonFileVars>>

\* One pass of the loop over file_paths; os.remove raises on a directory.
DeleteFilesItem ==
    /\ fileCall.op = "delete_files"
    /\ fileCall.pc = "loop"
    /\ fileCall.i <= Len(fileCall.file_paths)
    /\ LET file_path == fileCall.file_paths[fileCall.i]
       IN  IF ~exists(fs, file_path)
           THEN /\ fileCall' = [fileCall EXCEPT !.i = @ + 1]
                /\ fs' = fs
           ELSE IF isdir(fs, file_path)
           THEN /\ fileCall' = [fileCall EXCEPT !.pc = "done", !.ret = "False",
                                                !.raised = TRUE]
                /\ fs' = fs
           ELSE /\ fileCall' = [fileCall EXCEPT !.i = @ + 1, !.deleted_count = @ + 1]
                /\ fs' = [fs EXCEPT ![file_path] = Absent]
    /\ UNCHANGED nonFileVars

DeleteFilesReturn ==
    /\ fileCall.op = "delete_files"
    /\ fileCall.pc = "loop"
    /\ fileCall.i > Len(fileCall.file_paths)
    /\ fileCall' = [fileCall EXCEPT !.pc = "done", !.ret = "True"]
    /\ UNCHANGED <<fs, nonFileVars>>

(***************************************************************************)
(* File module: compress_folder and extract_archive                        *)
(***************************************************************************)
\* An archive member: its name in the archive and the entry it stores.  The
\* members are kept as a set: their names are distinct, and os.walk lists a
\* directory in no fixed order.
Member(name, entry) == [name |-> name, entry |-> entry]

\* The files os.walk(folder_path) finds, at any depth.
walk_files(f, folder_path) ==
    {p \in DOMAIN f : IsUnder(p, folder_path) /\ f[p].kind = "file"}

\* Files and directories alike.
walk_all(f, folder_path) ==
    {p \in DOMAIN f : IsUnder(p, folder_path) /\ f[p].kind # "absent"}

\* The zip branch: zipf.write(file_path, arcname) for the files of the walk.
zip_members(f, folder_path) ==
    {Member(relpath(p, folder_path), f[p]) : p \in walk_files(f, folder_path)}

\* The tar.gz branch: tarf.add(folder_path, arcname=basename) stores the
\* folder itself and, recursively, all it holds.
tar_members(f, folder_path) ==
    {Member(basename(folder_path), f[folder_path])} \cup
    {Member(join(basename(folder_path), relpath(p, folder_path)), f[p]) :
        p \in walk_all(f, folder_path)}

\* extractall(destination_dir): every member is written below the
\* destination, with the directories above it.  The destination holds no
\* entry of another kind where a member goes (no file system of the model
\* has one).
extractall(f, destination_dir, members) ==
    LET targets == {join(destination_dir, m.name) : m \in members}
        above == UNION {Ancestors(t) : t \in targets}
    IN  [q \in DOMAIN f |->
            IF q \in targets
            THEN (CHOOSE m \in members : join(destination_dir, m.name) = q).entry
            ELSE IF q \in above /\ IsUnder(q, destination_dir) THEN DirEntry
            ELSE f[q]]

Formats == {"zip", "tar.gz", "rar", "ZIP"}

\* A variant of unsupported_format that opens the output file before it looks
\* at the format.
unsupported_format_opens_output(f, output_path) ==
    [f EXCEPT ![output_path] = Archive("zip", {})]

\* The file system after the branch for a format that is neither 'zip' nor
\* 'tar.gz': the branch reports and returns, no file was opened before it.
unsupported_format(f, output_path) == f

CompressFolder ==
    /\ fileCall.pc = "idle"
    /\ \E folder_path \in {SDir, SY, Missing},
          output_path \in {AZip, ATgz, ATar, AUpper}, format \in Formats :
          LET call == [op |-> "compress_folder", pc |-> "done", ret |-> "True",
                       raised |-> FALSE, folder_path |-> folder_path,
                       output_path |-> output_path, format |-> format]
          IN  IF ~exists(fs, folder_path)
              THEN fileCall' = [call EXCEPT !.ret = "False"] /\ fs' = fs
              ELSE IF format = "zip"
              THEN /\ fileCall' = call
                   /\ fs' = [fs EXCEPT ![output_path] =
                                Archive("zip", zip_members(fs, folder_path))]
              ELSE IF format = "tar.gz"
              THEN /\ fileCall' = call
                   /\ fs' = [fs EXCEPT ![output_path] =
                                Archive("tar.gz", tar_members(fs, folder_path))]
              ELSE /\ fileCall' = [call EXCEPT !.ret = "False"]
                   /\ fs' = unsupported_format(fs, output_path)
    /\ UNCHANGED nonFileVars

\* A variant of reader that compares the suffix without regard to case.
reader_any_case(archive_path) ==
    IF \/ EndsWith(archive_path, <<".", "z", "i", "p">>)
       \/ EndsWith(archive_path, <<".", "Z", "I", "P">>) THEN "zip"
    ELSE IF \/ EndsWith(archive_path, <<".", "t", "a", "r", ".", "g", "z">>)
            \/ EndsWith(archive_path, <<".", "t", "g", "z">>) THEN "tar.gz"
    ELSE IF EndsWith(archive_path, <<".", "t", "a", "r">>) THEN "tar"
    ELSE "none"

\* The reader the suffix of archive_path selects, "none" for no reader.
reader(archive_path) ==
    IF EndsWith(archive_path, <<".", "z", "i", "p">>) THEN "zip"
    ELSE IF \/ EndsWith(archive_path, <<".", "t", "a", "r", ".", "g", "z">>)
            \/ EndsWith(archive_path, <<".", "t", "g", "z">>) THEN "tar.gz"
    ELSE IF EndsWith(archive_path, <<".", "t", "a", "r">>) THEN "tar"
    ELSE "none"

\* Whether the reader opens the file: zipfile raises BadZipFile and tarfile
\* ReadError on bytes of another format; mode 'r' of tarfile reads a
\* compressed tar as well.
opens(rd, entry) ==
    /\ entry.kind = "file"
    /\ \/ rd = "zip" /\ entry.data = "zip"
       \/ rd = "tar.gz" /\ entry.data = "tar.gz"
       \/ rd = "tar" /\ entry.data \in {"tar", "tar.gz"}

\* extract_archive runs from rest, or on what the compress_folder call
\* before it left (the round trip).
ExtractArchive ==
    /\ \/ fileCall.pc = "idle"
       \/ fileCall.pc = "done" /\ fileCall.op = "compress_folder"
    /\ \E archive_path \in {AZip, ATgz, ATar, AUpper, SX},
          destination_dir \in {DDir} :
          LET call == [op |-> "extract_archive", pc |-> "done", ret |-> "True",
                       raised |-> FALSE, archive_path |-> archive_path,
                       destination_dir |-> destination_dir,
                       fresh |-> ~exists(fs, destination_dir), before |-> fileCall]
              made == IF exists(fs, destination_dir) THEN fs
                      ELSE makedirs(fs, destination_dir)
          IN  IF ~exists(fs, archive_path)
              THEN fileCall' = [call EXCEPT !.ret = "False"] /\ fs' = fs
              ELSE IF reader(archive_path) = "none"
              THEN fileCall' = [call EXCEPT !.ret = "False"] /\ fs' = made
              ELSE IF ~opens(reader(archive_path), fs[archive_path])
              THEN /\ fileCall' = [call EXCEPT !.ret = "False", !.raised = TRUE]
                   /\ fs' = made
              ELSE /\ fileCall' = call
                   /\ fs' = extractall(made, destination_dir, fs[archive_path].members)
    /\ UNCHANGED nonFileVars

(***************************************************************************)
(* Network module                                                          *)
(***************************************************************************)
MaxSockets == 2     \* sockets the process can hold open

Ports == {53, 70000}

Timeouts == {1, 3, -1}

\* What the network answers to a connection attempt: it connects, it
\* refuses, or the host name does not resolve.
ConnectResults == {"ok", "refused", "gaierror"}

\* Python's None as the absent value of an optional.
None == <<>>

Returns(value) == [kind |-> "return", value |-> value]
Raises(exc) == [kind |-> "raise", value |-> exc]

\* The exception classes below OSError, which socket.error names.
OSErrors == {"OSError", "ConnectionRefusedError", "gaierror"}

\* Whether an except clause catches: "socket.error" catches OSError and its
\* subclasses, "Exception" and a bare clause catch every error of the model.
catches(clause, exc) == clause \in {"Exception", "bare"} \/ exc \in OSErrors

\* What a call that ends on an exception yields: the clause's value, or the
\* exception itself when the clause does not catch it.
handled(clause, exc, value) ==
    IF catches(clause, exc) THEN Returns(value) ELSE Raises(exc)

\* socket.setdefaulttimeout(timeout) on a valid timeout.
setdefaulttimeout_noop(default, timeout) == default

setdefaulttimeout(default, timeout) == <<timeout>>

\* The timeout is rejected with ValueError when negative.
BadTimeout(timeout) == timeout < 0

\* connect and connect_ex reject a port outside 0..65535 with OverflowError.
BadPort(port) == port \notin 0..65535

\* socket.socket(...): the descriptor the new socket takes, 0 when the
\* process has none left (OSError).
NewSocket == IF sockets = 1..MaxSockets THEN 0
             ELSE CHOOSE s \in 1..MaxSockets :
                     s \notin sockets /\ \A r \in 1..(s - 1) : r \in sockets

\* The open sockets once the call has dropped its reference to socket s.
\* close() was called: the socket is closed.  Otherwise the runtime closes it
\* when it finalises the object, at the return or at any later time.
Dropped(s, closed, finalised) ==
    IF closed \/ finalised THEN sockets \ {s} ELSE sockets \cup {s}

NetIdle ==
    /\ defaultTimeout = None
    /\ sockets = {}
    /\ netCall = [op |-> "none", outcome |-> [kind |-> "none", value |-> "none"],
                  sock |-> 0]

\* The runtime finalises a socket object no call refers to any more.
Finalize ==
    /\ \E s \in sockets : sockets' = sockets \ {s}
    /\ UNCHANGED <<defaultTimeout, netCall, nonNetVars>>

\* try: setdefaulttimeout(timeout); socket(...).connect((host, port));
\* return True / except socket.error: return False.  The socket is never
\* closed by the code.
CheckInternetConnection(port, timeout, result, finalised) ==
    LET call(outcome, s) ==
            [op |-> "check_internet_connection", port |-> port, timeout |-> timeout,
             outcome |-> outcome, sock |-> s]
    IN  /\ IF BadTimeout(timeout)
           THEN /\ netCall' = call(handled("socket.error", "ValueError", "False"), 0)
                /\ UNCHANGED <<defaultTimeout, sockets>>
           ELSE /\ defaultTimeout' = setdefaulttimeout(defaultTimeout, timeout)
                /\ IF NewSocket = 0
                   THEN /\ netCall' = call(handled("socket.error", "OSError", "False"), 0)
                        /\ UNCHANGED sockets
                   ELSE /\ sockets' = Dropped(NewSocket, FALSE, finalised)
                        /\ netCall' = call(
                              IF BadPort(port)
                              THEN handled("socket.error", "OverflowError", "False")
                              ELSE IF result = "refused"
                              THEN handled("socket.error", "ConnectionRefusedError", "False")
                              ELSE IF result = "gaierror"
                              THEN handled("socket.error", "gaierror", "False")
                              ELSE Returns("True"), NewSocket)
        /\ UNCHANGED nonNetVars

\* try: s = socket(...); s.connect(("8.8.8.8", 80)); ip = s.getsockname()[0];
\* s.close(); return ip / except Exception: return None.
GetIpAddress(result, finalised) ==
    LET call(outcome, s) == [op |-> "get_ip_address", outcome |-> outcome, sock |-> s]
    IN  /\ IF NewSocket = 0
           THEN /\ netCall' = call(handled("Exception", "OSError", "None"), 0)
                /\ UNCHANGED sockets
           ELSE IF result # "ok"
           THEN /\ netCall' = call(handled("Exception", "OSError", "None"), NewSocket)
                /\ sockets' = Dropped(NewSocket, FALSE, finalised)
           ELSE /\ netCall' = call(Returns("ip"), NewSocket)
                /\ sockets' = Dropped(NewSocket, TRUE, finalised)
        /\ UNCHANGED <<defaultTimeout, nonNetVars>>

\* try: sock = socket(...); sock.settimeout(timeout);
\* result = sock.connect_ex((host, port)); sock.close(); return result == 0
\* except: return False.  connect_ex returns the error code of a failed
\* connection and raises on a bad port or an unknown host.
IsPortOpen(port, timeout, result, finalised) ==
    LET call(outcome, s) ==
            [op |-> "is_port_open", port |-> port, timeout |-> timeout,
             outcome |-> outcome, sock |-> s]
    IN  /\ IF NewSocket = 0
           THEN /\ netCall' = call(handled("bare", "OSError", "False"), 0)
                /\ UNCHANGED sockets
           ELSE IF BadTimeout(timeout)
           THEN /\ netCall' = call(handled("bare", "ValueError", "False"), NewSocket)
                /\ sockets' = Dropped(NewSocket, FALSE, finalised)
           ELSE IF BadPort(port)
           THEN /\ netCall' = call(handled("bare", "OverflowError", "False"), NewSocket)
                /\ sockets' = Dropped(NewSocket, FALSE, finalised)
           ELSE IF result = "gaierror"
           THEN /\ netCall' = call(handled("bare", "gaierror", "False"), NewSocket)
                /\ sockets' = Dropped(NewSocket, FALSE, finalised)
           ELSE /\ netCall' = call(Returns(IF result = "ok" THEN "True" ELSE "False"),
                                   NewSocket)
                /\ sockets' = Dropped(NewSocket, TRUE, finalised)
        /\ UNCHANGED <<defaultTimeout, nonNetVars>>

(***************************************************************************)
(* Data module: the inputs                                                 *)
(***************************************************************************)
MaxItems == 3       \* items of an input mapping, over all its levels
MaxDepth == 2       \* levels of an input mapping
MaxArgs == 2        \* arguments of one merge_dicts call

\* Keys of the mappings to flatten: plain keys, a key that contains the
\* default separator, and the empty key.
FlattenKeys == {<<"a">>, <<"b">>, <<"a", ".", "b">>, EmptyStr}

\* Separators: the default, one that occurs in no key, and the empty string.
Seps == {<<".">>, <<"_">>, EmptyStr}

LeafVals == {IntVal(1), ListVal(<<2>>)}

\* Items a value counts for: one, plus the items of a nested mapping.
RECURSIVE ItemCount(_)
ItemCount(d) ==
    IF d = <<>> THEN 0
    ELSE 1 + (IF d[1][2].t = "dict" THEN ItemCount(d[1][2].v) ELSE 0) + ItemCount(Tail(d))

\* Every mapping over keys, of at most depth levels and n items in all.
RECURSIVE Dicts(_, _, _)
Dicts(keys, depth, n) ==
    IF n = 0 \/ depth = 0 THEN {<<>>}
    ELSE {<<>>} \cup UNION { UNION {
            { <<<<k, v>>>> \o rest :
                rest \in { r \in Dicts(keys, depth, n - 1 - (IF v.t = "dict" THEN ItemCount(v.v) ELSE 0)) :
                           ~HasKey(r, k) } }
            : v \in LeafVals \cup {DictVal(d) : d \in Dicts(keys, depth - 1, n - 1)} }
        : k \in keys }

MergeKeys == {<<"a">>, <<"b">>}

MaxAllow == 2       \* entries of the allowlist of one filter_dict call

\* Keys of the mappings to filter, and the keys an allowlist may name: one of
\* them is a key of no mapping.
FilterKeys == {<<"a">>, <<"b">>, <<"c">>}

AllowKeys == {<<"a">>, <<"b">>, <<"z">>}

(***************************************************************************)
(* Data module: flatten_dict and merge_dicts                               *)
(***************************************************************************)
\* new_key = f"{parent_key}{sep}{k}" if parent_key else k
new_key_ignores_parent(parent_key, sep, k) == k

new_key_always_joins(parent_key, sep, k) == parent_key \o sep \o k

new_key(parent_key, sep, k) ==
    IF parent_key # EmptyStr THEN parent_key \o sep \o k ELSE k

\* The loop over d.items() collects the items list, dict(items) is returned.
RECURSIVE flatten_dict(_, _, _)
flatten_dict(d, parent_key, sep) ==
    LET RECURSIVE items(_)
        items(i) ==
            IF i > Len(d) THEN <<>>
            ELSE LET k == d[i][1]
                     v == d[i][2]
                 IN  (IF v.t = "dict"
                      THEN flatten_dict(v.v, new_key(parent_key, sep, k), sep)
                      ELSE << <<new_key(parent_key, sep, k), v>> >>) \o items(i + 1)
    IN  DictOfItems(items(1))

\* result.update(d), for one argument d of merge_dicts.
update_keeps_existing(result, d) ==
    DictUpdate(result, SelectSeq(d, LAMBDA it : ~HasKey(result, it[1])))

update(result, d) == DictUpdate(result, d)

\* The loop of merge_dicts from its i-th argument on.
RECURSIVE merge_dicts_from(_, _, _)
merge_dicts_from(result, dicts, i) ==
    IF i > Len(dicts) THEN result
    ELSE merge_dicts_from(update(result, dicts[i]), dicts, i + 1)

merge_dicts(dicts) == merge_dicts_from(<<>>, dicts, 1)

\* k in keys, for a list keys.
in_any_list(k, keys) == TRUE

in_list(k, keys) == \E i \in 1..Len(keys) : keys[i] = k

\* {k: v for k, v in d.items() if k in keys}
filter_dict(d, keys) ==
    DictOfItems(SelectSeq(d, LAMBDA it : in_list(it[1], keys)))

(***************************************************************************)
(* Text module                                                             *)
(***************************************************************************)
TextIdle == textCall = [op |-> "none", pc |-> "idle"]

MaxText == 4        \* characters of an input text
MaxLen == 5         \* largest max_length argument

TextChars == {"a", "b"}

Suffixes == {EmptyStr, <<".">>, <<".", ".", ".">>}

\* s[:n] for any integer n: a negative n counts from the end of s.
SliceTo(s, n) ==
    IF n >= 0 THEN Take(s, n)
    ELSE Take(s, IF Len(s) + n > 0 THEN Len(s) + n ELSE 0)

truncate_text(text, max_length, suffix) ==
    IF Len(text) <= max_length THEN text
    ELSE SliceTo(text, max_length - Len(suffix)) \o suffix

(***************************************************************************)
(* Text module: to_snake_case and to_kebab_case                            *)
(***************************************************************************)
\* The characters of the texts to convert: letters of both cases, the
\* space, the underscore, the hyphen, and the capital I with a dot above
\* (U+0130), which str.lower() turns into two characters: an i and the
\* combining dot above (U+0307).  The two code points are written by their
\* numbers.
CaseChars == {"a", "b", "B", " ", "_", "-", "U+0130"}

\* A variant of is_word that takes the hyphen for a word character.
is_word_or_hyphen(c) == c \in {"a", "b", "B", "i", "_", "U+0130", "-"}

\* \w: letters, digits and the underscore; a combining mark is none of them.
is_word(c) == c \in {"a", "b", "B", "i", "_", "U+0130"}

\* \s
is_space(c) == c \in {" ", "\t"}

\* re.sub(r'[^\w\s]', '', text)
strip_specials(text) == SelectSeq(text, LAMBDA c : is_word(c) \/ is_space(c))

\* re.sub(r'\s+', separator, text): each run of whitespace becomes one
\* separator.
RECURSIVE join_words(_, _)
join_words(text, separator) ==
    IF text = <<>> THEN <<>>
    ELSE IF is_space(text[1])
    THEN IF Len(text) > 1 /\ is_space(text[2])
         THEN join_words(Tail(text), separator)
         ELSE <<separator>> \o join_words(Tail(text), separator)
    ELSE <<text[1]>> \o join_words(Tail(text), separator)

\* text.lower()
RECURSIVE str_lower(_)
str_lower(text) ==
    IF text = <<>> THEN <<>>
    ELSE (CASE text[1] = "B" -> <<"b">>
            [] text[1] = "U+0130" -> <<"i", "U+0307">>
            [] OTHER -> <<text[1]>>) \o str_lower(Tail(text))

to_snake_case(text) == str_lower(join_words(strip_specials(text), "_"))

to_kebab_case(text) == str_lower(join_words(strip_specials(text), "-"))

(***************************************************************************)
(* Datetime module                                                         *)
(***************************************************************************)
TimeIdle == now = <<>> /\ timeCall = [op |-> "none", pc |-> "idle"]

FirstYear == 2023   \* the clock starts on 1 January of this year, at noon
LastYear == 2024    \* and stops on 31 December of this year

\* A naive datetime: the calendar date, the second of the day and the
\* microsecond of the second.
Datetime(y, m, d, sec, us) ==
    [year |-> y, month |-> m, day |-> d, second |-> sec, microsecond |-> us]

IsLeap(y) == (y % 4 = 0 /\ y % 100 # 0) \/ y % 400 = 0

DaysInMonth(y, m) ==
    IF m = 2 THEN (IF IsLeap(y) THEN 29 ELSE 28)
    ELSE IF m \in {4, 6, 9, 11} THEN 30 ELSE 31

\* date.toordinal(): the days from 1 January of year 1, which is day 1.
toordinal(dt) ==
    LET y == dt.year - 1
        RECURSIVE before(_)
        before(m) == IF m = 1 THEN 0 ELSE before(m - 1) + DaysInMonth(dt.year, m - 1)
    IN  y * 365 + (y \div 4) - (y \div 100) + (y \div 400) + before(dt.month) + dt.day

\* a - b as a timedelta, normalised as Python does: 0 <= seconds < 86400 and
\* 0 <= microseconds < 1000000, the sign carried by days alone.
timedelta(a, b) ==
    LET us == a.microsecond - b.microsecond
        sec == a.second - b.second - (IF us < 0 THEN 1 ELSE 0)
    IN  [days |-> toordinal(a) - toordinal(b) - (IF sec < 0 THEN 1 ELSE 0),
         seconds |-> IF sec < 0 THEN sec + 86400 ELSE sec,
         microseconds |-> IF us < 0 THEN us + 1000000 ELSE us]

\* abs(n)
abs(n) == IF n < 0 THEN -n ELSE n

days_between(date1, date2) == abs(timedelta(date2, date1).days)

\* today.month < birth.month or (today.month == birth.month and today.day < birth.day)
before_birthday_by_month_only(today, birth_date) == today.month < birth_date.month

before_birthday(today, birth_date) ==
    \/ today.month < birth_date.month
    \/ (today.month = birth_date.month /\ today.day < birth_date.day)

calculate_age(today, birth_date) ==
    today.year - birth_date.year - (IF before_birthday(today, birth_date) THEN 1 ELSE 0)

\* int(x) for x = whole + us / 1000000 with 0 <= us < 1000000: truncation
\* towards zero.
int(whole, us) == IF whole < 0 /\ us > 0 THEN whole + 1 ELSE whole

\* The bucket of time_ago by whole seconds alone, a day used from 86400 on.
bucket_up_to_day_inclusive(whole) ==
    IF whole < 60 THEN "seconds"
    ELSE IF whole < 3600 THEN "minutes"
    ELSE IF whole <= 86400 THEN "hours" ELSE "days"

\* seconds < 60, seconds < 3600, seconds < 86400: seconds is whole + a
\* fraction below one, so each test is the test of whole.
bucket(whole) ==
    IF whole < 60 THEN "seconds"
    ELSE IF whole < 3600 THEN "minutes"
    ELSE IF whole < 86400 THEN "hours" ELSE "days"

\* The text time_ago returns, as the number printed and the unit word after
\* it; the word "ago" follows in every case.
time_ago(current, past_date) ==
    LET diff == timedelta(current, past_date)
        whole == diff.days * 86400 + diff.seconds
        b == bucket(whole)
        word(n, unit) == [n |-> n, unit |-> IF n # 1 THEN unit \o "s" ELSE unit]
    IN  IF b = "seconds" THEN [n |-> int(whole, diff.microseconds), unit |-> "seconds"]
        ELSE IF b = "minutes" THEN word(whole \div 60, "minute")
        ELSE IF b = "hours" THEN word(whole \div 3600, "hour")
        ELSE word(whole \div 86400, "day")

\* The day after dt, at the same time of day.
NextDay(dt) ==
    IF dt.day < DaysInMonth(dt.year, dt.month) THEN [dt EXCEPT !.day = dt.day + 1]
    ELSE IF dt.month < 12 THEN [dt EXCEPT !.month = dt.month + 1, !.day = 1]
    ELSE [dt EXCEPT !.year = dt.year + 1, !.month = 1, !.day = 1]

\* Birth dates: 1 January, 29 February, 31 December, a day in mid-year, and a
\* day that the clock has yet to reach when it starts.
Births ==
    { Datetime(1990, 1, 1, 0, 0), Datetime(2020, 2, 29, 0, 0),
      Datetime(1995, 12, 31, 0, 0), Datetime(1990, 7, 15, 30000, 0),
      Datetime(FirstYear, 6, 10, 0, 0) }

\* Datetimes about noon of the clock's second day, at distances on both sides
\* of each threshold of time_ago, with and without a fraction of a second.
Pasts ==
    { Datetime(FirstYear, 1, d, sec, us) :
        d \in {1, 2, 3},
        sec \in {0, 39600, 39601, 43080, 43140, 43141, 43198, 43199, 43200, 43205},
        us \in {0, 500000} }

\* Arguments of days_between: with and without a time of day, on both sides
\* of the leap day.
Dates ==
    { Datetime(2024, 2, 28, 43200, 500000), Datetime(2024, 3, 1, 0, 0),
      Datetime(2024, 3, 1, 43200, 0), Datetime(2024, 3, 2, 0, 0),
      Datetime(2024, 3, 2, 43200, 0) }

\* The system clock moves on by a day.  Each behaviour makes one call, on some
\* day of the clock's range.
Tick ==
    /\ timeCall.pc = "idle"
    /\ now # <<>>
    /\ ~(now.year = LastYear /\ now.month = 12 /\ now.day = 31)
    /\ now' = NextDay(now)
    /\ UNCHANGED <<timeCall, nonTimeVars>>

CalculateAge(birth_date) ==
    /\ timeCall.pc = "idle"
    /\ now # <<>>
    /\ timeCall' = [op |-> "calculate_age", pc |-> "done", birth_date |-> birth_date,
                    today |-> now, out |-> calculate_age(now, birth_date)]
    /\ UNCHANGED <<now, nonTimeVars>>

DaysBetween(date1, date2) ==
    /\ timeCall.pc = "idle"
    /\ now # <<>>
    /\ timeCall' = [op |-> "days_between", pc |-> "done", date1 |-> date1,
                    date2 |-> date2, out |-> days_between(date1, date2),
                    swapped |-> <<>>]
    /\ UNCHANGED <<now, nonTimeVars>>

\* days_between(date2, date1), after days_between(date1, date2).
DaysBetweenSwapped ==
    /\ timeCall.op = "days_between"
    /\ timeCall.swapped = <<>>
    /\ timeCall' = [timeCall EXCEPT
            !.swapped = <<days_between(timeCall.date2, timeCall.date1)>>]
    /\ UNCHANGED <<now, nonTimeVars>>

TimeAgo(past_date) ==
    /\ timeCall.pc = "idle"
    /\ now # <<>>
    /\ timeCall' = [op |-> "time_ago", pc |-> "done", past_date |-> past_date,
                    current |-> now, out |-> time_ago(now, past_date)]
    /\ UNCHANGED <<now, nonTimeVars>>

(***************************************************************************)
(* PDF module                                                              *)
(***************************************************************************)
PdfIdle ==
    /\ installed = {}
    /\ modules = {}
    /\ pdfDir = <<>>
    /\ pdfDirExists = FALSE
    /\ pdfCall = [op |-> "none", pc |-> "idle"]

MaxPages == 4       \* pages of a source document
MaxPerFile == 3     \* largest pages_per_file argument
MaxList == 2        \* entries of the pdf_list of one merge_pdfs call

\* The third-party packages the module imports.
Packages == {"requests", "PyPDF2", "pdf2image"}

\* An import statement succeeds when the module was imported before or its
\* package is installed; otherwise it raises ImportError.
importable(name) == name \in modules \/ name \in installed

\* Importing pdf_utils, as every caller must: its line 6 imports requests.
pdf_utils_loads == "pdf_utils" \in modules \/ importable("requests")

\* The outcome of a call that ended: a return value with the report printed,
\* or an exception that reached the caller.
Returned(call, ret, report) ==
    [call EXCEPT !.pc = "done", !.ret = ret, !.report = report]

RaisedImportError(call) == [call EXCEPT !.pc = "done", !.raised = TRUE]

PdfCall(op) ==
    [op |-> op, pc |-> "call", ret |-> "pending", report |-> "none", raised |-> FALSE]

\* open(name, 'wb') and the write: the file is created or replaced.
WriteFile(dir, name, content) ==
    [f \in DOMAIN dir \cup {name} |-> IF f = name THEN content ELSE dir[f]]

\* The output directory before a call: empty, or with a file of an earlier
\* split.
InitPdfDirs == {<<>>, [f \in {<<"split", 3>>} |-> <<9>>]}

\* A source document of n pages: the pages are told apart by their position.
Pages(n) == [i \in 1..n |-> i]

\* The sources of split_pdf and pdf_to_images: a document of up to MaxPages
\* pages, or a path that cannot be read as a PDF.
Sources ==
    {[readable |-> FALSE, total_pages |-> 0]}
        \cup {[readable |-> TRUE, total_pages |-> n] : n \in 0..MaxPages}

\* The entries of a pdf_list: a path that does not exist, or a document.
ListEntries ==
    { [exists |-> FALSE, pages |-> <<>>], [exists |-> TRUE, pages |-> <<1, 2>>],
      [exists |-> TRUE, pages |-> <<3>>] }

\* min(a, b)
min(a, b) == IF a < b THEN a ELSE b

\* reader.pages[page_num] for page_num in range(start_page, end_page)
PageRange(start_page, end_page) ==
    [i \in 1..(end_page - start_page) |-> start_page + i]

\* f"split_{file_count + 1}.pdf"
output_filename_from_zero(file_count) == <<"split", file_count>>

output_filename(file_count) == <<"split", file_count + 1>>

\* The output paths of download_pdf and merge_pdfs lie in the same
\* directory: open() and merger.write() raise when it does not exist.
\* The imports that a call which got past them has made.
Imported(names) == modules \cup {"pdf_utils", "requests"} \cup names

DownloadPdf(fails) ==
    /\ pdfCall.pc = "idle"
    /\ LET call == PdfCall("download_pdf")
       IN  IF ~pdf_utils_loads
           THEN pdfCall' = RaisedImportError(call) /\ UNCHANGED <<modules, pdfDir>>
           ELSE /\ modules' = Imported({})
                /\ IF fails \/ ~pdfDirExists
                   THEN pdfCall' = Returned(call, "False", "error") /\ UNCHANGED pdfDir
                   ELSE /\ pdfCall' = Returned(call, "True", "success")
                        /\ pdfDir' = WriteFile(pdfDir, <<"output">>, <<"downloaded">>)
    /\ UNCHANGED <<pdfDirExists, installed, nonPdfVars>>

\* The pages of the entries that exist, in list order.
RECURSIVE merged(_)
merged(pdf_list) ==
    IF pdf_list = <<>> THEN <<>>
    ELSE (IF pdf_list[1].exists THEN pdf_list[1].pages ELSE <<>>) \o merged(Tail(pdf_list))

MergePdfs(pdf_list, fails) ==
    /\ pdfCall.pc = "idle"
    /\ LET call == PdfCall("merge_pdfs")
       IN  IF ~pdf_utils_loads
           THEN pdfCall' = RaisedImportError(call) /\ UNCHANGED <<modules, pdfDir>>
           ELSE IF ~importable("PyPDF2")
           THEN /\ modules' = Imported({})
                /\ pdfCall' = Returned(call, "False", "missing_dependency")
                /\ UNCHANGED pdfDir
           ELSE /\ modules' = Imported({"PyPDF2"})
                /\ IF fails \/ ~pdfDirExists
                   THEN pdfCall' = Returned(call, "False", "error") /\ UNCHANGED pdfDir
                   ELSE /\ pdfCall' = Returned(call, "True", "success")
                        /\ pdfDir' = WriteFile(pdfDir, <<"output">>, merged(pdf_list))
    /\ UNCHANGED <<pdfDirExists, installed, nonPdfVars>>

\* A variant of makedirs_output_dir that leaves the directory as it is.
output_dir_left_alone == pdfDirExists

\* if not os.path.exists(output_dir): os.makedirs(output_dir)
makedirs_output_dir == TRUE

\* page_1 .. page_n, one image for each page.
RECURSIVE save_images(_, _)
save_images(dir, n) ==
    IF n = 0 THEN dir ELSE WriteFile(save_images(dir, n - 1), <<"page", n>>, <<n>>)

PdfToImages(source) ==
    /\ pdfCall.pc = "idle"
    /\ LET call == PdfCall("pdf_to_images")
       IN  IF ~pdf_utils_loads
           THEN /\ pdfCall' = RaisedImportError(call)
                /\ UNCHANGED <<modules, pdfDir, pdfDirExists>>
           ELSE IF ~importable("pdf2image")
           THEN /\ modules' = Imported({})
                /\ pdfCall' = Returned(call, "False", "missing_dependency")
                /\ UNCHANGED <<pdfDir, pdfDirExists>>
           ELSE /\ modules' = Imported({"pdf2image"})
                /\ pdfDirExists' = makedirs_output_dir
                /\ IF ~source.readable
                   THEN pdfCall' = Returned(call, "False", "error") /\ UNCHANGED pdfDir
                   ELSE /\ pdfCall' = Returned(call, "True", "success")
                        /\ pdfDir' = save_images(pdfDir, source.total_pages)
    /\ UNCHANGED <<installed, nonPdfVars>>

\* split_pdf up to its loop: the import, the reader and range(0, total_pages,
\* pages_per_file), which raises ValueError for a step of 0.
SplitPdfCall(source, pages_per_file) ==
    /\ pdfCall.pc = "idle"
    /\ LET call == [PdfCall("split_pdf") EXCEPT !.pc = "call"]
           args == [readable |-> source.readable, total_pages |-> source.total_pages,
                    pages_per_file |-> pages_per_file,
                    start_page |-> 0, file_count |-> 0]
           with(c) == [f \in DOMAIN c \cup DOMAIN args |->
                          IF f \in DOMAIN args THEN args[f] ELSE c[f]]
       IN  IF ~pdf_utils_loads
           THEN /\ pdfCall' = with(RaisedImportError(call))
                /\ UNCHANGED <<modules, pdfDirExists>>
           ELSE IF ~importable("PyPDF2")
           THEN /\ modules' = Imported({})
                /\ pdfCall' = with(Returned(call, "False", "missing_dependency"))
                /\ UNCHANGED pdfDirExists
           ELSE /\ modules' = Imported({"PyPDF2"})
                /\ pdfDirExists' = makedirs_output_dir
                /\ IF ~source.readable \/ pages_per_file = 0
                   THEN pdfCall' = with(Returned(call, "False", "error"))
                   ELSE pdfCall' = with([call EXCEPT !.pc = "loop"])
    /\ UNCHANGED <<pdfDir, installed, nonPdfVars>>

\* range(0, total_pages, pages_per_file) has a next value; with a negative
\* step it has none.
more_pages ==
    pdfCall.pages_per_file > 0 /\ pdfCall.start_page < pdfCall.total_pages

\* One iteration of the loop of split_pdf; writing the file may fail.
SplitPdfItem(fails) ==
    /\ pdfCall.op = "split_pdf"
    /\ pdfCall.pc = "loop"
    /\ more_pages
    /\ IF fails
       THEN pdfCall' = Returned(pdfCall, "False", "error") /\ UNCHANGED pdfDir
       ELSE LET end_page == min(pdfCall.start_page + pdfCall.pages_per_file,
                                pdfCall.total_pages)
            IN  /\ pdfDir' = WriteFile(pdfDir, output_filename(pdfCall.file_count),
                                       PageRange(pdfCall.start_page, end_page))
                /\ pdfCall' = [pdfCall EXCEPT
                        !.start_page = pdfCall.start_page + pdfCall.pages_per_file,
                        !.file_count = pdfCall.file_count + 1]
    /\ UNCHANGED <<pdfDirExists, installed, modules, nonPdfVars>>

SplitPdfReturn ==
    /\ pdfCall.op = "split_pdf"
    /\ pdfCall.pc = "loop"
    /\ ~more_pages
    /\ pdfCall' = Returned(pdfCall, "True", "success")
    /\ UNCHANGED <<pdfDir, pdfDirExists, installed, modules, nonPdfVars>>

(***************************************************************************)
(* Commands module                                                         *)
(***************************************************************************)
CmdIdle == catalogs = <<>> /\ cmdCall = [op |-> "none", pc |-> "idle"]

MaxCatalogs == 2    \* get_common_commands calls of one behaviour

\* A record of the catalog.  The texts of this module are never computed
\* with, and are kept as whole strings.
Record(command, description, platform) ==
    << <<"command", command>>, <<"description", description>>,
       <<"platform", platform>> >>

\* The dict literal of get_common_commands.
Catalog ==
    <<
      <<"file_operations", <<
         Record("ls -lah",
                "List all files with details and hidden files",
                "Linux/Mac"),
         Record("dir",
                "List files in directory",
                "Windows"),
         Record("cp -r source dest",
                "Copy directory recursively",
                "Linux/Mac"),
         Record("mv source dest",
                "Move or rename files",
                "Linux/Mac"),
         Record("rm -rf directory",
                "Remove directory and contents",
                "Linux/Mac"),
         Record("find . -name '*.txt'",
                "Find all .txt files in current directory",
                "Linux/Mac") >> >>,
      <<"system_info", <<
         Record("uname -a",
                "Display system information",
                "Linux/Mac"),
         Record("systeminfo",
                "Display detailed system information",
                "Windows"),
         Record("df -h",
                "Display disk usage in human-readable format",
                "Linux/Mac"),
         Record("free -h",
                "Display memory usage",
                "Linux"),
         Record("top",
                "Display running processes",
                "Linux/Mac") >> >>,
      <<"network", <<
         Record("ping google.com",
                "Test network connectivity",
                "All"),
         Record("curl -I https://example.com",
                "Get HTTP headers from URL",
                "Linux/Mac"),
         Record("wget https://example.com/file",
                "Download file from URL",
                "Linux/Mac"),
         Record("ifconfig",
                "Display network interface configuration",
                "Linux/Mac"),
         Record("ipconfig",
                "Display network configuration",
                "Windows") >> >>,
      <<"git", <<
         Record("git status",
                "Check repository status",
                "All"),
         Record("git add .",
                "Stage all changes",
                "All"),
         Record("git commit -m 'message'",
                "Commit staged changes",
                "All"),
         Record("git push",
                "Push commits to remote",
                "All"),
         Record("git pull",
                "Pull changes from remote",
                "All"),
         Record("git log --oneline",
                "View commit history (compact)",
                "All") >> >>,
      <<"package_management", <<
         Record("pip install package_name",
                "Install Python package",
                "All"),
         Record("npm install package_name",
                "Install Node.js package",
                "All"),
         Record("apt-get update && apt-get install package",
                "Update and install package (Debian/Ubuntu)",
                "Linux"),
         Record("brew install package",
                "Install package using Homebrew",
                "Mac") >> >>,
      <<"compression", <<
         Record("tar -czf archive.tar.gz folder/",
                "Create compressed tar.gz archive",
                "Linux/Mac"),
         Record("tar -xzf archive.tar.gz",
                "Extract tar.gz archive",
                "Linux/Mac"),
         Record("zip -r archive.zip folder/",
                "Create zip archive",
                "All"),
         Record("unzip archive.zip",
                "Extract zip archive",
                "All") >> >>,
      <<"text_processing", <<
         Record("grep 'pattern' file.txt",
                "Search for pattern in file",
                "Linux/Mac"),
         Record("sed 's/old/new/g' file.txt",
                "Replace text in file",
                "Linux/Mac"),
         Record("awk '{print $1}' file.txt",
                "Print first column of file",
                "Linux/Mac"),
         Record("cat file1.txt file2.txt > combined.txt",
                "Concatenate files",
                "Linux/Mac") >> >>
    >>

\* commands = {...}: the objects that exist and the one the name is bound to.
\* A dict display builds a new object each time it is evaluated.
commands_cached(heap) ==
    IF heap = <<>> THEN [heap |-> <<Catalog>>, ref |-> 1] ELSE [heap |-> heap, ref |-> 1]

commands_literal(heap) == [heap |-> Append(heap, Catalog), ref |-> Len(heap) + 1]

GetCommonCommands ==
    /\ Len(catalogs) < MaxCatalogs
    /\ LET built == commands_literal(catalogs)
       IN  /\ catalogs' = built.heap
           /\ cmdCall' = [op |-> "get_common_commands", pc |-> "done",
                          ref |-> built.ref, existing |-> Len(catalogs),
                          value |-> built.heap[built.ref]]
    /\ UNCHANGED nonCmdVars

\* What a caller may do to a catalog it was handed.
Mutations ==
    {"add_category", "remove_category", "add_record", "remove_record", "edit_record"}

mutated(c, kind) ==
    IF kind = "add_category" THEN Append(c, <<"custom", <<>>>>)
    ELSE IF kind = "remove_category" THEN Tail(c)
    ELSE IF kind = "add_record"
    THEN [c EXCEPT ![1] = <<c[1][1], Append(c[1][2], Record("x", "y", "z"))>>]
    ELSE IF kind = "remove_record" THEN [c EXCEPT ![1] = <<c[1][1], Tail(c[1][2])>>]
    ELSE [c EXCEPT ![1] = <<c[1][1],
                            [c[1][2] EXCEPT ![1] = DictSet(c[1][2][1], "command", "edited")]>>]

\* The caller changes a catalog that an earlier call returned; each catalog
\* is changed once at most.
Mutate(i, kind) ==
    /\ i \in 1..Len(catalogs)
    /\ catalogs[i] = Catalog
    /\ catalogs' = [catalogs EXCEPT ![i] = mutated(catalogs[i], kind)]
    /\ UNCHANGED <<cmdCall, nonCmdVars>>

\* Exit codes of a command that ran: success, failures, and -1 for a process
\* ended by signal 1.
ExitCodes == {0, 1, 127, -1}

\* The dict of the except branch of execute_command.
failure_result(e) ==
    [returncode |-> -1, stdout |-> None, stderr |-> <<e>>, success |-> FALSE]

\* execute_command.  launches: subprocess.run started the command; code: the
\* exit code of a command that ran; decodes: its output is text in the
\* locale's encoding, which text=True requires.
ExecuteCommand(capture_output, launches, code, decodes) ==
    /\ cmdCall' =
          LET call == [op |-> "execute_command", pc |-> "done",
                       capture_output |-> capture_output]
              with(ran, exit, result) ==
                  [f \in DOMAIN call \cup {"ran", "exit", "result"} |->
                      IF f = "ran" THEN ran
                      ELSE IF f = "exit" THEN exit
                      ELSE IF f = "result" THEN result ELSE call[f]]
          IN  IF ~launches
              THEN with(FALSE, None, failure_result("launch error"))
              ELSE IF capture_output /\ ~decodes
              THEN with(TRUE, <<code>>, failure_result("decode error"))
              ELSE with(TRUE, <<code>>,
                        [returncode |-> code,
                         stdout |-> IF capture_output THEN <<"stdout">> ELSE None,
                         stderr |-> IF capture_output THEN <<"stderr">> ELSE None,
                         success |-> code = 0])
    /\ UNCHANGED <<catalogs, nonCmdVars>>

(***************************************************************************)
(* The specifications, one for each module                               *)
(***************************************************************************)
\* The file module at rest, in the specifications of the other modules.
FileIdle == fs = <<>> /\ fileCall = Idle

\* The data module at rest, in the specifications of the other modules.
DataIdle == dataCall = [op |-> "none", pc |-> "idle"]

\* The modules other than the file, network and data modules at rest.
RestIdle == TextIdle /\ TimeIdle /\ PdfIdle /\ CmdIdle

FileInit ==
    /\ fs \in InitFileSystems
    /\ fileCall = Idle
    /\ NetIdle
    /\ DataIdle
    /\ RestIdle

FileNext ==
    \/ CopyFilesCall \/ CopyFilesItem \/ CopyFilesReturn
    \/ DeleteFilesCall \/ DeleteFilesItem \/ DeleteFilesReturn
    \/ CompressFolder \/ ExtractArchive

SpecFile == FileInit /\ [][FileNext]_vars

MoveInit ==
    /\ fs \in MoveFileSystems
    /\ fileCall = Idle
    /\ NetIdle
    /\ DataIdle
    /\ RestIdle

MoveNext == MoveFilesCall \/ MoveFilesItem \/ MoveFilesReturn

SpecMove == MoveInit /\ [][MoveNext]_vars

SizeInit ==
    /\ fs \in SizeFileSystems
    /\ fileCall = Idle
    /\ NetIdle
    /\ DataIdle
    /\ RestIdle

SizeNext == GetFileSize

SpecSize == SizeInit /\ [][SizeNext]_vars

NetInit == FileIdle /\ NetIdle /\ DataIdle /\ RestIdle

NetNext ==
    \/ \E port \in Ports, timeout \in Timeouts, result \in ConnectResults,
          finalised \in BOOLEAN :
          CheckInternetConnection(port, timeout, result, finalised)
    \/ \E result \in ConnectResults, finalised \in BOOLEAN :
          GetIpAddress(result, finalised)
    \/ \E port \in Ports, timeout \in Timeouts, result \in ConnectResults,
          finalised \in BOOLEAN :
          IsPortOpen(port, timeout, result, finalised)
    \/ Finalize

SpecNet == NetInit /\ [][NetNext]_vars

\* The text module before a call: the operation and its arguments are chosen.
TextInit ==
    /\ FileIdle
    /\ NetIdle
    /\ DataIdle
    /\ TimeIdle
    /\ PdfIdle
    /\ CmdIdle
    /\ \E text \in SeqsUpTo(TextChars, MaxText), max_length \in 0..MaxLen,
          suffix \in Suffixes :
          textCall = [op |-> "truncate_text", pc |-> "call", text |-> text,
                      max_length |-> max_length, suffix |-> suffix, out |-> EmptyStr]

TruncateText ==
    /\ textCall.op = "truncate_text"
    /\ textCall.pc = "call"
    /\ textCall' = [textCall EXCEPT
            !.pc = "done",
            !.out = truncate_text(textCall.text, textCall.max_length, textCall.suffix)]
    /\ UNCHANGED nonTextVars

TextNext == TruncateText

SpecText == TextInit /\ [][TextNext]_vars

\* The text module before a call of to_snake_case or to_kebab_case.
CaseInit ==
    /\ FileIdle
    /\ NetIdle
    /\ DataIdle
    /\ TimeIdle
    /\ PdfIdle
    /\ CmdIdle
    /\ \E op \in {"to_snake_case", "to_kebab_case"},
          text \in SeqsUpTo(CaseChars, MaxText) :
          textCall = [op |-> op, pc |-> "call", text |-> text, out |-> EmptyStr,
                      again |-> EmptyStr]

ToSnakeCase ==
    /\ textCall.op = "to_snake_case"
    /\ textCall.pc = "call"
    /\ textCall' = [textCall EXCEPT !.pc = "done",
                                    !.out = to_snake_case(textCall.text)]
    /\ UNCHANGED nonTextVars

ToKebabCase ==
    /\ textCall.op = "to_kebab_case"
    /\ textCall.pc = "call"
    /\ textCall' = [textCall EXCEPT !.pc = "done",
                                    !.out = to_kebab_case(textCall.text)]
    /\ UNCHANGED nonTextVars

\* The same function, called on the result of the call before.
ToSnakeCaseAgain ==
    /\ textCall.op = "to_snake_case"
    /\ textCall.pc = "done"
    /\ textCall' = [textCall EXCEPT !.pc = "again",
                                    !.again = to_snake_case(textCall.out)]
    /\ UNCHANGED nonTextVars

ToKebabCaseAgain ==
    /\ textCall.op = "to_kebab_case"
    /\ textCall.pc = "done"
    /\ textCall' = [textCall EXCEPT !.pc = "again",
                                    !.again = to_kebab_case(textCall.out)]
    /\ UNCHANGED nonTextVars

CaseNext == ToSnakeCase \/ ToKebabCase \/ ToSnakeCaseAgain \/ ToKebabCaseAgain

SpecCase == CaseInit /\ [][CaseNext]_vars

TimeInit ==
    /\ FileIdle
    /\ NetIdle
    /\ DataIdle
    /\ TextIdle
    /\ PdfIdle
    /\ CmdIdle
    /\ now = Datetime(FirstYear, 1, 1, 43200, 0)
    /\ timeCall = [op |-> "none", pc |-> "idle"]

TimeNext ==
    \/ Tick
    \/ \E birth_date \in Births : CalculateAge(birth_date)
    \/ \E date1 \in Dates, date2 \in Dates : DaysBetween(date1, date2)
    \/ DaysBetweenSwapped
    \/ \E past_date \in Pasts : TimeAgo(past_date)

SpecTime == TimeInit /\ [][TimeNext]_vars

\* The PDF module before a call, in an environment with some of the packages.
PdfInit ==
    /\ FileIdle
    /\ NetIdle
    /\ DataIdle
    /\ TextIdle
    /\ TimeIdle
    /\ CmdIdle
    /\ installed \in SUBSET Packages
    /\ modules = {}
    /\ pdfDir \in InitPdfDirs
    /\ pdfDirExists \in BOOLEAN
    /\ pdfDir # <<>> => pdfDirExists
    /\ pdfCall = [op |-> "none", pc |-> "idle"]

PdfNext ==
    \/ \E fails \in BOOLEAN : DownloadPdf(fails)
    \/ \E pdf_list \in SeqsUpTo(ListEntries, MaxList), fails \in BOOLEAN :
          MergePdfs(pdf_list, fails)
    \/ \E source \in Sources : PdfToImages(source)
    \/ \E source \in Sources, pages_per_file \in -1..MaxPerFile :
          SplitPdfCall(source, pages_per_file)
    \/ \E fails \in BOOLEAN : SplitPdfItem(fails)
    \/ SplitPdfReturn

SpecPdf == PdfInit /\ [][PdfNext]_vars

CmdInit ==
    /\ FileIdle
    /\ NetIdle
    /\ DataIdle
    /\ TextIdle
    /\ TimeIdle
    /\ PdfIdle
    /\ CmdIdle

CmdNext ==
    \/ GetCommonCommands
    \/ \E i \in 1..MaxCatalogs, kind \in Mutations : Mutate(i, kind)
    \/ \E capture_output \in BOOLEAN, launches \in BOOLEAN, code \in ExitCodes,
          decodes \in BOOLEAN :
          ExecuteCommand(capture_output, launches, code, decodes)

SpecCmd == CmdInit /\ [][CmdNext]_vars

\* The data module before a call: the operation and its arguments are chosen.
DataInit ==
    /\ FileIdle
    /\ NetIdle
    /\ RestIdle
    /\ \/ \E d \in Dicts(FlattenKeys, MaxDepth, MaxItems), sep \in Seps :
             dataCall = [op |-> "flatten_dict", pc |-> "call", d |-> d, sep |-> sep,
                         out |-> <<>>]
       \/ \E ds \in SeqsUpTo(Dicts(MergeKeys, 1, MaxItems), MaxArgs) :
             dataCall = [op |-> "merge_dicts", pc |-> "call", dicts |-> ds, out |-> <<>>]
       \/ \E d \in Dicts(FilterKeys, 1, MaxItems), keys \in SeqsUpTo(AllowKeys, MaxAllow) :
             dataCall = [op |-> "filter_dict", pc |-> "call", d |-> d, keys |-> keys,
                         out |-> <<>>]

FlattenDict ==
    /\ dataCall.op = "flatten_dict"
    /\ dataCall.pc = "call"
    /\ dataCall' = [dataCall EXCEPT !.pc = "done",
                                    !.out = flatten_dict(dataCall.d, EmptyStr, dataCall.sep)]
    /\ UNCHANGED nonDataVars

\* The call flatten_dict(r, sep=sep) on the result r of the call before.
FlattenAgain ==
    /\ dataCall.op = "flatten_dict"
    /\ dataCall.pc = "done"
    /\ dataCall.out # dataCall.d
    /\ dataCall' = [dataCall EXCEPT !.d = dataCall.out,
                                    !.out = flatten_dict(dataCall.out, EmptyStr, dataCall.sep)]
    /\ UNCHANGED nonDataVars

MergeDicts ==
    /\ dataCall.op = "merge_dicts"
    /\ dataCall.pc = "call"
    /\ dataCall' = [dataCall EXCEPT !.pc = "done", !.out = merge_dicts(dataCall.dicts)]
    /\ UNCHANGED nonDataVars

FilterDict ==
    /\ dataCall.op = "filter_dict"
    /\ dataCall.pc = "call"
    /\ dataCall' = [dataCall EXCEPT !.pc = "done",
                                    !.out = filter_dict(dataCall.d, dataCall.keys)]
    /\ UNCHANGED nonDataVars

DataNext == FlattenDict \/ FlattenAgain \/ MergeDicts \/ FilterDict

SpecData == DataInit /\ [][DataNext]_vars

(***************************************************************************)
(* File module: the claims                                                 *)
(***************************************************************************)
CopyDone == fileCall.op = "copy_files" /\ fileCall.pc = "done"

\* A pass of the copy loop is about to run.
CopyPass ==
    /\ fileCall.op = "copy_files"
    /\ fileCall.pc = "loop"
    /\ fileCall.i <= Len(fileCall.source_paths)

CopySource == fileCall.source_paths[fileCall.i]

CopyDest == DDir \o Sep \o basename(CopySource)

CopyBlocked == exists(fs, CopyDest) /\ ~fileCall.overwrite

DeleteDone == fileCall.op = "delete_files" /\ fileCall.pc = "done"

\* The user answered the prompt, and not with 'y' in either case.
AnsweredNo(call) ==
    call.confirm /\ call.response \notin {<<"y">>, <<"Y">>, EndOfInput}

\* C2: no step of a delete_files call with confirm=True whose answer is not
\* 'y' or 'Y' changes the file system, and the call ends without entering
\* its deletion loop.
C2_CancelDeletesNothing ==
    [][(fileCall'.op = "delete_files" /\ AnsweredNo(fileCall')) =>
            fs' = fs /\ fileCall'.pc = "done"]_vars

C2_Witness ==
    /\ DeleteDone
    /\ fileCall.confirm
    /\ fileCall.response = <<"y", "e", "s">>
    /\ fileCall.file_paths = <<SX, TX>>
    /\ fs[SX] = File("c1")
    /\ fs[TX] = File("c2")

\* C3 as stated: delete_files returns True in every call in which no
\* exception is raised, whatever the user answers.
C3_DeleteTrueUnlessException ==
    DeleteDone => (fileCall.ret = "True" <=> ~fileCall.raised)

\* C3 as amended: delete_files returns True exactly when no exception is
\* raised and the batch is not cancelled at the prompt; a cancelled batch
\* returns False although nothing raised.
C3_DeleteTrueUnlessCancelled ==
    DeleteDone =>
        /\ fileCall.ret = "True" <=> (~fileCall.raised /\ ~AnsweredNo(fileCall))
        /\ AnsweredNo(fileCall) => (fileCall.ret = "False" /\ ~fileCall.raised)

C3_Witness ==
    /\ DeleteDone
    /\ AnsweredNo(fileCall)
    /\ fileCall.response = <<"n">>
    /\ fileCall.ret = "False"
    /\ ~fileCall.raised

\* What exists below root, by relative path, with its entry.
RelTree(f, root) ==
    {<<DropFirst(p, Len(root) + 1), f[p]>> :
        p \in {q \in DOMAIN f : StartsWith(q, root \o Sep) /\ f[q].kind # "absent"}}

\* extract_archive returned True into a directory it created, on the archive
\* the compress_folder call before it wrote in zip format from a directory.
ZipRoundTrip ==
    /\ fileCall.op = "extract_archive"
    /\ fileCall.ret = "True"
    /\ fileCall.fresh
    /\ fileCall.before.op = "compress_folder"
    /\ fileCall.before.ret = "True"
    /\ fileCall.before.format = "zip"
    /\ fileCall.before.output_path = fileCall.archive_path
    /\ fs[fileCall.before.folder_path].kind = "dir"

\* C6: after the zip round trip the fresh directory holds the same relative
\* directory and file paths as the folder, with the same file contents.
C6_ZipRoundTripSameTree ==
    ZipRoundTrip =>
        RelTree(fs, fileCall.destination_dir) = RelTree(fs, fileCall.before.folder_path)

(***************************************************************************)
(* Network module: the claims                                              *)
(***************************************************************************)
\* C4: no public operation propagates an exception to its caller; on every
\* input, misuse included, it returns its failure value.
C4_NoCallRaises == netCall.outcome.kind # "raise"

\* C5: the socket a call of check_internet_connection, get_ip_address or
\* is_port_open opened is closed when the call is over, on every exit path.
C5_SocketClosedAtExit == netCall.sock \notin sockets

\* C7: only check_internet_connection changes the default socket timeout, and
\* once such a call has returned, True or False, the default is the call's
\* timeout argument, through every later call of another operation.
C7_DefaultTimeoutFrame ==
    /\ [][defaultTimeout' # defaultTimeout =>
            \E port \in Ports, timeout \in Timeouts, result \in ConnectResults,
               finalised \in BOOLEAN :
               CheckInternetConnection(port, timeout, result, finalised)]_vars
    /\ []((netCall.op = "check_internet_connection" /\ netCall.outcome.kind = "return") =>
            defaultTimeout = <<netCall.timeout>>)

\* is_port_open with timeout 3 has run after a connectivity check with
\* timeout 1, and the default is still 1.
C7_Witness ==
    /\ netCall.op = "is_port_open"
    /\ netCall.timeout = 3
    /\ netCall.outcome = Returns("True")
    /\ defaultTimeout = <<1>>

(***************************************************************************)
(* Data module: the claims                                                 *)
(***************************************************************************)
FlattenDone == dataCall.op = "flatten_dict" /\ dataCall.pc = "done"

\* The leaves of a nested mapping, each with its root-to-leaf path of keys.
RECURSIVE LeafPaths(_, _)
LeafPaths(d, path) ==
    IF d = <<>> THEN <<>>
    ELSE (IF d[1][2].t = "dict"
          THEN LeafPaths(d[1][2].v, Append(path, d[1][1]))
          ELSE << <<Append(path, d[1][1]), d[1][2]>> >>) \o LeafPaths(Tail(d), path)

\* k1 sep k2 sep ... sep kn
RECURSIVE JoinPath(_, _)
JoinPath(path, sep) ==
    IF Len(path) = 1 THEN path[1] ELSE path[1] \o sep \o JoinPath(Tail(path), sep)

\* Every key, at every level of d.
RECURSIVE AllKeys(_)
AllKeys(d) ==
    IF d = <<>> THEN {}
    ELSE {d[1][1]} \cup (IF d[1][2].t = "dict" THEN AllKeys(d[1][2].v) ELSE {})
                   \cup AllKeys(Tail(d))

IsFlat(d) == \A i \in 1..Len(d) : d[i][2].t # "dict"

\* C8 as stated: the result of flatten_dict has as many entries as its
\* argument has leaves, whatever the keys are.
C8_EntriesEqualLeaves ==
    FlattenDone => Len(dataCall.out) = Len(LeafPaths(dataCall.d, <<>>))

\* Every key, at every level of d, whose value is a mapping.
RECURSIVE ParentKeys(_)
ParentKeys(d) ==
    IF d = <<>> THEN {}
    ELSE (IF d[1][2].t = "dict" THEN {d[1][1]} \cup ParentKeys(d[1][2].v) ELSE {})
         \cup ParentKeys(Tail(d))

SepFreeKeys(d, sep) ==
    /\ Len(sep) = 1
    /\ \A k \in AllKeys(d) : ~Contains(k, sep)
    /\ EmptyStr \notin ParentKeys(d)

\* C8 as amended: when the separator is one character, no key at any level
\* contains it and no key that holds a nested mapping is empty, the result of
\* flatten_dict has as many entries as its argument has leaves, and every
\* leaf's value is stored under its path joined by the separator.
C8_DistinctPathsDistinctKeys ==
    (FlattenDone /\ SepFreeKeys(dataCall.d, dataCall.sep)) =>
        LET leaves == LeafPaths(dataCall.d, <<>>)
        IN  /\ Len(dataCall.out) = Len(leaves)
            /\ \A i \in 1..Len(leaves) :
                  /\ HasKey(dataCall.out, JoinPath(leaves[i][1], dataCall.sep))
                  /\ Lookup(dataCall.out, JoinPath(leaves[i][1], dataCall.sep)) = leaves[i][2]

C8_Witness ==
    /\ FlattenDone
    /\ SepFreeKeys(dataCall.d, dataCall.sep)
    /\ ~IsFlat(dataCall.d)
    /\ Len(dataCall.out) = 2

\* C9: the result of flatten_dict holds no mapping as a value, flatten_dict
\* returns a mapping without mapping values as it is, and flattening the
\* result again returns the result.
C9_FlattenIdempotent ==
    FlattenDone =>
        /\ IsFlat(dataCall.out)
        /\ IsFlat(dataCall.d) => dataCall.out = dataCall.d
        /\ flatten_dict(dataCall.out, EmptyStr, dataCall.sep) = dataCall.out

C9_Witness ==
    /\ FlattenDone
    /\ ~IsFlat(dataCall.d)
    /\ Len(dataCall.out) >= 2
    /\ \E k \in KeysOf(dataCall.out) : k \notin AllKeys(dataCall.d)

MergeDone == dataCall.op = "merge_dicts" /\ dataCall.pc = "done"

\* The last argument that contains key k.
LastWith(dicts, k) ==
    dicts[CHOOSE i \in 1..Len(dicts) :
             /\ HasKey(dicts[i], k)
             /\ \A j \in (i + 1)..Len(dicts) : ~HasKey(dicts[j], k)]

\* C10: the result of merge_dicts has the union of the arguments' keys, each
\* with its value in the last argument that contains it; without arguments the
\* result is empty; the call leaves its arguments as they were.
C10_MergeLastWins ==
    /\ [](MergeDone =>
            /\ KeysOf(dataCall.out) = UNION {KeysOf(dataCall.dicts[i]) : i \in 1..Len(dataCall.dicts)}
            /\ \A k \in KeysOf(dataCall.out) :
                  Lookup(dataCall.out, k) = Lookup(LastWith(dataCall.dicts, k), k)
            /\ dataCall.dicts = <<>> => dataCall.out = <<>>)
    /\ [][dataCall.op = "merge_dicts" => dataCall'.dicts = dataCall.dicts]_vars

C10_Witness ==
    /\ MergeDone
    /\ Len(dataCall.dicts) = 2
    /\ \E k \in KeysOf(dataCall.dicts[1]) \cap KeysOf(dataCall.dicts[2]) :
          Lookup(dataCall.dicts[1], k) # Lookup(dataCall.dicts[2], k)
    /\ KeysOf(dataCall.dicts[1]) # KeysOf(dataCall.dicts[2])

\* C11: filter_dict(d, keys) returns exactly the entries of d whose key occurs
\* in keys, values unchanged and in d's order: its keys are d's keys that the
\* allowlist names, no key absent from d is added, and an empty allowlist or
\* one of unknown keys gives the empty mapping.
FilterDone == dataCall.op = "filter_dict" /\ dataCall.pc = "done"

Allowed == {dataCall.keys[i] : i \in 1..Len(dataCall.keys)}

C11_FilterKeepsAllowed ==
    FilterDone =>
        /\ KeysOf(dataCall.out) = KeysOf(dataCall.d) \cap Allowed
        /\ Len(dataCall.out) = Cardinality(KeysOf(dataCall.out))
        /\ \A k \in KeysOf(dataCall.out) : Lookup(dataCall.out, k) = Lookup(dataCall.d, k)
        /\ \A i, j \in 1..Len(dataCall.out) :
              i < j => \E m, n \in 1..Len(dataCall.d) :
                          m < n /\ dataCall.d[m] = dataCall.out[i] /\ dataCall.d[n] = dataCall.out[j]
        /\ (Allowed \cap KeysOf(dataCall.d) = {}) => dataCall.out = <<>>

\* The allowlist names a key of d, a key that d lacks, and d has a key the
\* allowlist does not name: one entry is kept, one dropped, none added.
C11_Witness ==
    /\ FilterDone
    /\ <<"z">> \in Allowed
    /\ Allowed \cap KeysOf(dataCall.d) # {}
    /\ KeysOf(dataCall.d) \ Allowed # {}
    /\ Len(dataCall.out) = 1

(***************************************************************************)
(* Text module: the claims                                                 *)
(***************************************************************************)
\* C12: for every text, every max_length >= 0 and every suffix, truncate_text
\* returns text unchanged when len(text) <= max_length, and otherwise a string
\* of length exactly max_length that ends with suffix; so the result is never
\* longer than max_length.
TruncateDone == textCall.op = "truncate_text" /\ textCall.pc = "done"

C12_TruncateWithinMaxLength ==
    (TruncateDone /\ textCall.max_length >= 0) =>
        IF Len(textCall.text) <= textCall.max_length
        THEN textCall.out = textCall.text
        ELSE /\ Len(textCall.out) = textCall.max_length
             /\ EndsWith(textCall.out, textCall.suffix)

(***************************************************************************)
(* Datetime module: the claims                                             *)
(***************************************************************************)
\* C13: days_between is symmetric, also for datetimes with a time of day:
\* days_between(d1, d2) = days_between(d2, d1), and the result is never
\* negative.
C13_DaysBetweenSymmetric ==
    (timeCall.op = "days_between" /\ timeCall.swapped # <<>>) =>
        /\ timeCall.swapped[1] = timeCall.out
        /\ timeCall.out >= 0

\* C14: in each of the four buckets of time_ago the unit word is singular
\* (second, minute, hour, day) exactly when the number printed is 1, and
\* plural otherwise.
TimeAgoDone == timeCall.op = "time_ago" /\ timeCall.pc = "done"

C14_UnitAgreesInNumber ==
    TimeAgoDone =>
        IF timeCall.out.n = 1
        THEN timeCall.out.unit \in {"second", "minute", "hour", "day"}
        ELSE timeCall.out.unit \in {"seconds", "minutes", "hours", "days"}

\* C15: time_ago chooses its bucket from the elapsed seconds s = now - past
\* alone: seconds when s < 60, minutes when 60 <= s < 3600, hours when
\* 3600 <= s < 86400, days from 86400 on, and prints s divided by 1, 60, 3600
\* or 86400, truncated; so minutes print 1..59, hours 1..23, days 1 or more,
\* and a negative s is in the seconds bucket and printed as it is.
\* Below, s = floor + us / 1000000 with 0 <= us < 1000000.
C15_BucketsByElapsedSeconds ==
    TimeAgoDone =>
        LET diff == timedelta(timeCall.current, timeCall.past_date)
            floor == diff.days * 86400 + diff.seconds
            us == diff.microseconds
            n == timeCall.out.n
            unit == timeCall.out.unit
            \* n is s / size truncated, for s >= size > 0
            quotient(size) == n * size <= floor /\ floor < (n + 1) * size
        IN  /\ floor < 60 <=> unit = "seconds"
            /\ (60 <= floor /\ floor < 3600) <=> unit \in {"minute", "minutes"}
            /\ (3600 <= floor /\ floor < 86400) <=> unit \in {"hour", "hours"}
            /\ 86400 <= floor <=> unit \in {"day", "days"}
            /\ (0 <= floor /\ floor < 60) => n = floor
            /\ floor < 0 => /\ n <= 0
                            /\ n = (IF us = 0 THEN floor ELSE floor + 1)
            /\ unit \in {"minute", "minutes"} => quotient(60) /\ n \in 1..59
            /\ unit \in {"hour", "hours"} => quotient(3600) /\ n \in 1..23
            /\ unit \in {"day", "days"} => quotient(86400) /\ n >= 1

\* time_ago has been called with a past that lies five seconds in the
\* future, and has printed -5 seconds.
C15_Witness ==
    /\ TimeAgoDone
    /\ timeCall.current = Datetime(FirstYear, 1, 2, 43200, 0)
    /\ timeCall.past_date = Datetime(FirstYear, 1, 2, 43205, 0)
    /\ timeCall.out = [n |-> -5, unit |-> "seconds"]

\* C16: calculate_age(birth) is today's year minus the birth year, minus one
\* exactly when today's (month, day) is strictly earlier than the birth
\* (month, day); for a birth date not after today it is not negative; and it
\* grows by exactly one on each day whose (month, day) first reaches or passes
\* the birth (month, day) in a year, and on no other day.
AgeDone == timeCall.op = "calculate_age" /\ timeCall.pc = "done"

\* (month, day) as one number, ordered as the pairs are.
MonthDay(dt) == dt.month * 100 + dt.day

NotAfter(a, b) ==
    \/ toordinal(a) < toordinal(b)
    \/ /\ toordinal(a) = toordinal(b)
       /\ \/ a.second < b.second
          \/ (a.second = b.second /\ a.microsecond <= b.microsecond)

C16_AgeByAnniversary ==
    /\ [](AgeDone =>
            /\ timeCall.out = timeCall.today.year - timeCall.birth_date.year
                    - (IF MonthDay(timeCall.today) < MonthDay(timeCall.birth_date)
                       THEN 1 ELSE 0)
            /\ NotAfter(timeCall.birth_date, timeCall.today) => timeCall.out >= 0)
    /\ [][now' # now =>
            \A b \in Births :
                calculate_age(now', b) - calculate_age(now, b) =
                    (IF /\ MonthDay(now') >= MonthDay(b)
                        /\ (now'.year # now.year \/ MonthDay(now) < MonthDay(b))
                     THEN 1 ELSE 0)]_vars

\* calculate_age for a birth on 29 February 2020 has been called on 1 March
\* 2023, the first day of that year that passes the birth (month, day).
C16_Witness ==
    /\ AgeDone
    /\ timeCall.birth_date = Datetime(2020, 2, 29, 0, 0)
    /\ timeCall.today = Datetime(2023, 3, 1, 43200, 0)
    /\ timeCall.out = 3

(***************************************************************************)
(* PDF module: the claims                                                  *)
(***************************************************************************)
\* C17: for a source of n pages and pages_per_file = k >= 1, a split_pdf that
\* succeeds writes exactly the ceil(n / k) files split_1.pdf .. split_m.pdf and
\* no other file; file i holds the pages (i-1)*k+1 .. min(i*k, n) in source
\* order, so every page is in exactly one file, only the last file may hold
\* fewer than k pages, and the files in numeric order give back the source.
SplitDone == pdfCall.op = "split_pdf" /\ pdfCall.pc = "done"

\* The files split_i .. split_m of the directory, one after the other.
RECURSIVE Concatenated(_, _)
Concatenated(i, m) ==
    IF i > m THEN <<>> ELSE pdfDir[<<"split", i>>] \o Concatenated(i + 1, m)

C17_SplitPartitionsPages ==
    (SplitDone /\ pdfCall.ret = "True" /\ pdfCall.pages_per_file >= 1) =>
        LET n == pdfCall.total_pages
            k == pdfCall.pages_per_file
            m == (n + k - 1) \div k
            file(i) == pdfDir[<<"split", i>>]
        IN  /\ pdfCall.file_count = m
            /\ \A i \in 1..m : <<"split", i>> \in DOMAIN pdfDir
            /\ \A f \in DOMAIN pdfDir \ {<<"split", i>> : i \in 1..m} :
                  \E dir \in InitPdfDirs : f \in DOMAIN dir /\ dir[f] = pdfDir[f]
            /\ \A i \in 1..m :
                  file(i) = [j \in 1..(min(i * k, n) - (i - 1) * k) |-> (i - 1) * k + j]
            /\ \A page \in 1..n :
                  Cardinality({ij \in (1..m) \X (1..k) :
                                 ij[2] <= Len(file(ij[1])) /\ file(ij[1])[ij[2]] = page}) = 1
            /\ \A i \in 1..m : Len(file(i)) \in 1..k /\ (i < m => Len(file(i)) = k)
            /\ Concatenated(1, m) = Pages(n)

\* Three pages have been split two to a file, into a directory that held
\* split_3.pdf of an earlier split: split_1 has two pages, split_2 the third.
C17_Witness ==
    /\ SplitDone
    /\ pdfCall.ret = "True"
    /\ pdfCall.total_pages = 3
    /\ pdfCall.pages_per_file = 2
    /\ DOMAIN pdfDir = {<<"split", 1>>, <<"split", 2>>, <<"split", 3>>}
    /\ pdfDir[<<"split", 2>>] = <<3>>

\* C18: each of download_pdf, merge_pdfs, split_pdf and pdf_to_images, called
\* while its own third-party package is not installed, returns False with the
\* missing-dependency report and raises nothing; and an operation whose own
\* package is installed is not made unusable by the absence of another's.
Dependency(op) ==
    IF op = "download_pdf" THEN "requests"
    ELSE IF op = "pdf_to_images" THEN "pdf2image" ELSE "PyPDF2"

C18_MissingDependencyReported ==
    pdfCall.pc = "done" =>
        /\ ~pdfCall.raised
        /\ Dependency(pdfCall.op) \notin installed =>
               pdfCall.ret = "False" /\ pdfCall.report = "missing_dependency"
        /\ Dependency(pdfCall.op) \in installed =>
               pdfCall.report # "missing_dependency"

(***************************************************************************)
(* Commands module: the claims                                             *)
(***************************************************************************)
\* C19: every result of execute_command has success = (returncode = 0); a
\* command that ran has success true exactly when its exit code is 0; and a
\* launch exception does not propagate but gives returncode -1, success
\* False, stdout None and the exception text as stderr.
ExecDone == cmdCall.op = "execute_command" /\ cmdCall.pc = "done"

C19_SuccessIffExitZero ==
    ExecDone =>
        /\ cmdCall.result.success = (cmdCall.result.returncode = 0)
        /\ cmdCall.ran => (cmdCall.result.success <=> cmdCall.exit = <<0>>)
        /\ ~cmdCall.ran => cmdCall.result = failure_result("launch error")

\* C20: the catalog is built anew by each get_common_commands call: after any
\* calls and any changes the caller made to catalogs returned before, the call
\* returns a new object equal to the fixed catalog, with the seven categories
\* in their order and each record with the keys command, description and
\* platform.
CatalogDone == cmdCall.op = "get_common_commands" /\ cmdCall.pc = "done"

C20_CatalogFreshAndFixed ==
    CatalogDone =>
        /\ cmdCall.ref \notin 1..cmdCall.existing
        /\ cmdCall.value = Catalog
        /\ [i \in 1..Len(cmdCall.value) |-> cmdCall.value[i][1]] =
              <<"file_operations", "system_info", "network", "git",
                "package_management", "compression", "text_processing">>
        /\ \A i \in 1..Len(cmdCall.value) :
              \A r \in 1..Len(cmdCall.value[i][2]) :
                  /\ KeysOf(cmdCall.value[i][2][r]) = {"command", "description", "platform"}
                  /\ Len(cmdCall.value[i][2][r]) = 3

\* The second call has returned, after the caller removed a category from the
\* catalog of the first call.
C20_Witness ==
    /\ CatalogDone
    /\ cmdCall.ref = 2
    /\ catalogs[1] = Tail(Catalog)
    /\ catalogs[2] = Catalog

(***************************************************************************)
(* File module: the claims on archives with an unsupported format          *)
(***************************************************************************)
\* The step that is a compress_folder call, and the one that is an
\* extract_archive call.
CompressStep == fileCall.pc = "idle" /\ fileCall'.op = "compress_folder"

ExtractStep == fileCall.op # "extract_archive" /\ fileCall'.op = "extract_archive"

\* C21: compress_folder on an existing folder with a format other than 'zip'
\* and 'tar.gz' returns False, raises nothing, and leaves the file system as
\* it was: the file at output_path is neither created nor modified.
C21_UnsupportedFormatWritesNothing ==
    [][(/\ CompressStep
        /\ exists(fs, fileCall'.folder_path)
        /\ fileCall'.format \notin {"zip", "tar.gz"})
       => /\ fileCall'.ret = "False"
          /\ ~fileCall'.raised
          /\ fs'[fileCall'.output_path] = fs[fileCall'.output_path]
          /\ fs' = fs]_vars

\* compress_folder has refused the format 'ZIP' for an existing folder, and
\* the file that was at the output path is still there.
C21_Witness ==
    /\ fileCall.op = "compress_folder" /\ fileCall.pc = "done"
    /\ fileCall.format = "ZIP"
    /\ fileCall.folder_path = SDir /\ isdir(fs, SDir)
    /\ fileCall.output_path = AZip /\ fs[AZip] = File("c1")
    /\ fileCall.ret = "False"

\* C22: extract_archive on an existing archive file chooses the reader by the
\* suffix of the path alone: '.zip' is read as a zip, '.tar.gz' and '.tgz' as
\* a gzip-compressed tar, '.tar' as a tar, so the call succeeds exactly when
\* the bytes are what that reader opens, and then every member is extracted;
\* with any other suffix, the upper-case '.ZIP' included, it returns False,
\* raises nothing and extracts no member.
C22_ReaderFromSuffixAlone ==
    [][(ExtractStep /\ exists(fs, fileCall'.archive_path)) =>
        LET p == fileCall'.archive_path
            d == fileCall'.destination_dir
            made == IF exists(fs, d) THEN fs ELSE makedirs(fs, d)
            zip == EndsWith(p, <<".", "z", "i", "p">>)
            tgz == \/ EndsWith(p, <<".", "t", "a", "r", ".", "g", "z">>)
                   \/ EndsWith(p, <<".", "t", "g", "z">>)
            tar == EndsWith(p, <<".", "t", "a", "r">>)
        IN  /\ zip => (fileCall'.ret = "True" <=> fs[p].data = "zip")
            /\ tgz => (fileCall'.ret = "True" <=> fs[p].data = "tar.gz")
            /\ tar => (fileCall'.ret = "True" <=> fs[p].data \in {"tar", "tar.gz"})
            /\ ~(zip \/ tgz \/ tar) =>
                   /\ fileCall'.ret = "False"
                   /\ ~fileCall'.raised
                   /\ fs' = made
            /\ fileCall'.ret = "True" =>
                   fs' = extractall(made, d, fs[p].members)]_vars

\* extract_archive has refused a.ZIP, which holds the zip that the
\* compress_folder call before it wrote.
C22_Witness ==
    /\ fileCall.op = "extract_archive" /\ fileCall.pc = "done"
    /\ fileCall.archive_path = AUpper
    /\ fs[AUpper].data = "zip" /\ fs[AUpper].members # {}
    /\ fileCall.before.op = "compress_folder"
    /\ fileCall.ret = "False" /\ ~fileCall.raised

\* C28: extract_archive creates the destination directory before it looks at
\* the suffix: when it returns False and the destination directory was absent
\* before the call, the directory exists afterwards if the archive was found
\* (unrecognised suffix, or the reader raised), and the file system is
\* unchanged only if the archive was not found.
C28_DestinationMadeBeforeSuffix ==
    [][(/\ ExtractStep
        /\ fileCall'.ret = "False"
        /\ ~exists(fs, fileCall'.destination_dir))
       => /\ exists(fs, fileCall'.archive_path) =>
                 /\ isdir(fs', fileCall'.destination_dir)
                 /\ fs' = makedirs(fs, fileCall'.destination_dir)
          /\ fs' = fs <=> ~exists(fs, fileCall'.archive_path)]_vars

\* extract_archive has failed on a file that its reader could not open, and
\* the destination directory that was absent is there.
C28_Witness ==
    /\ fileCall.op = "extract_archive" /\ fileCall.pc = "done"
    /\ fileCall.ret = "False" /\ fileCall.raised
    /\ fileCall.fresh
    /\ isdir(fs, fileCall.destination_dir)
    /\ ~exists(fs, DX)

(***************************************************************************)
(* File module: the claims on a batch copy that fails or repeats a name    *)
(***************************************************************************)
\* C25: a batch copy is not rolled back.  The pass in which shutil.copy2
\* raises ends the call with False and changes no file, the passes before it
\* only added files to the destination directory, and nothing is processed
\* after the call has returned: the files copied for sources 1..k-1 are still
\* in the destination directory and sources k+1.. are never looked at.
C25_NoRollback ==
    /\ [][(CopyPass /\ fileCall'.raised) =>
            /\ fileCall'.pc = "done" /\ fileCall'.ret = "False"
            /\ fileCall'.i = fileCall.i
            /\ fileCall'.copied_count = fileCall.copied_count
            /\ fs' = fs]_vars
    /\ [][fileCall.op = "copy_files" =>
            \A p \in DOMAIN fs :
                (IsUnder(p, DDir) /\ exists(fs, p)) => exists(fs', p)]_vars
    /\ [][CopyDone => (fs' = fs /\ fileCall' = fileCall)]_vars

\* The second source of a batch was a directory, on which copy2 raised; the
\* copy of the first source is in the destination directory.
C25_Witness ==
    /\ CopyDone /\ fileCall.raised /\ fileCall.ret = "False"
    /\ fileCall.source_paths = <<SX, SY>>
    /\ fileCall.i = 2 /\ fileCall.copied_count = 1
    /\ ~exists(fileCall.start, DX)
    /\ fs[DX] = File("c1")

\* C27 as stated: when two sources of one batch share a basename, the
\* destination file holds the content of the first of them with
\* overwrite=False and of the last of them with overwrite=True, and the call
\* returns True.
Sharing(b) == {i \in 1..Len(fileCall.source_paths) :
                  basename(fileCall.source_paths[i]) = b}

SharedNames ==
    {b \in {basename(p) : p \in BatchPaths} : Cardinality(Sharing(b)) >= 2}

FirstOf(S) == CHOOSE i \in S : \A j \in S : i <= j

LastOf(S) == CHOOSE i \in S : \A j \in S : j <= i

AllSourcesAreFiles ==
    \A i \in 1..Len(fileCall.source_paths) :
        isfile(fileCall.start, fileCall.source_paths[i])

OrderDecides(b) ==
    LET dest_path == join(DDir, b)
        first == fileCall.source_paths[FirstOf(Sharing(b))]
        last == fileCall.source_paths[LastOf(Sharing(b))]
    IN  /\ ~fileCall.overwrite => fs[dest_path] = fileCall.start[first]
        /\ fileCall.overwrite => fs[dest_path] = fileCall.start[last]

SourcesOutsideDestination ==
    \A i \in 1..Len(fileCall.source_paths) :
        ~IsUnder(fileCall.source_paths[i], DDir)

MoveDone == fileCall.op = "move_files" /\ fileCall.pc = "done"

MoveSource(i) == fileCall.source_paths[i]

MoveDest(i) == join(DDir, basename(MoveSource(i)))

Moved(i) == fileCall.log[i].outcome = "moved"

Skipped(i) == fileCall.log[i].outcome = "skipped"

\* A skipped source is still at its path with what it held, and the
\* destination that made it skip is as it was.
SkippedInPlace(i) ==
    Skipped(i) =>
        /\ subtree(fs, MoveSource(i)) = fileCall.log[i].source
        /\ subtree(fs, MoveDest(i)) = fileCall.log[i].dest

\* C24 as stated: after a move_files call that returned True, every source
\* that was moved (it existed, and its destination was free or overwrite was
\* true) is gone from its source path and what it held is at
\* dest_dir/basename, and every skipped source and its destination are
\* unchanged.
C24_EveryMovedSourceRelocated ==
    (MoveDone /\ fileCall.ret = "True") =>
        \A i \in 1..Len(fileCall.source_paths) :
            /\ Moved(i) =>
                  /\ ~exists(fs, MoveSource(i))
                  /\ subtree(fs, MoveDest(i)) = fileCall.log[i].source
            /\ SkippedInPlace(i)

\* C24, amended: a moved source is gone from its source path unless that path
\* is dest_dir/basename itself; what it held is at dest_dir/basename unless a
\* later source with the same basename was moved there, and inside
\* dest_dir/basename when that was a directory already.
MovedOverLater(i) ==
    \E j \in (i + 1)..Len(fileCall.source_paths) :
        Moved(j) /\ MoveDest(j) = MoveDest(i)

C24_MovedSourceRelocatedUnlessReplaced ==
    (MoveDone /\ fileCall.ret = "True") =>
        \A i \in 1..Len(fileCall.source_paths) :
            /\ (Moved(i) /\ MoveSource(i) # MoveDest(i)) =>
                  ~exists(fs, MoveSource(i))
            /\ (Moved(i) /\ ~MovedOverLater(i)) =>
                  IF fileCall.log[i].dest.root.kind = "dir"
                  THEN subtree(fs, join(MoveDest(i), basename(MoveSource(i)))) =
                          fileCall.log[i].source
                  ELSE subtree(fs, MoveDest(i)) = fileCall.log[i].source
            /\ SkippedInPlace(i)

\* The directory s/y was moved to the free d/y with its file z, and t/x was
\* skipped because d/x was there.
C24_Witness ==
    /\ MoveDone /\ fileCall.ret = "True"
    /\ fileCall.source_paths = <<SY, TX>> /\ ~fileCall.overwrite
    /\ Moved(1) /\ Skipped(2)
    /\ ~exists(fs, SY) /\ ~exists(fs, SYZ)
    /\ isdir(fs, DY) /\ fs[join(DY, <<"z">>)] = File("c1")
    /\ fs[TX] = File("c2") /\ fs[DX] = File("c3")

(***************************************************************************)
(* File module: the claim on get_file_size                                 *)
(***************************************************************************)
SizeDone == fileCall.op = "get_file_size" /\ fileCall.pc = "done"

\* The index i of the unit for a count of n bytes: the smallest one of 0..4
\* with n < 1024^(i+1), which is the number of digits less one, and 5 (PB)
\* for n >= 1024^5.
UnitIndex(n) ==
    IF Len(n) = 0 THEN 0 ELSE IF Len(n) > 5 THEN 5 ELSE Len(n) - 1

UnitName(i) == IF i = 5 THEN "PB" ELSE Units[i + 1]

\* n / 1024^i: the integer part, and the numerator and the denominator of
\* the rest.
Scaled(n, i) ==
    LET rest == Trimmed([j \in 1..i |-> n[Len(n) - i + j]])
    IN  [whole |-> ToInt(Take(n, Len(n) - i)),
         num |-> ToInt(rest), den |-> Pow1024(Len(rest))]

\* Twice the distance, in units of 1/(100 * den), between the printed
\* magnitude and n / 1024^i.
TwiceError(n, v) ==
    LET s == Scaled(n, UnitIndex(n))
        e == (100 * (v.whole - s.whole) + v.cents) * s.den - 100 * s.num
    IN  IF e < 0 THEN 0 - 2 * e ELSE 2 * e

SizeRawOrNone ==
    /\ (exists(fs, fileCall.file_path) /\ ~fileCall.human_readable) =>
          fileCall.ret = "int" /\ fileCall.value = getsize(fs, fileCall.file_path)
    /\ ~exists(fs, fileCall.file_path) => fileCall.ret = "None"

\* C23 as stated: for an existing file of n bytes the human-readable report
\* names the unit of the smallest index i with n < 1024^(i+1), PB from 1024^5
\* on, with a magnitude equal to n / 1024^i; without human_readable the
\* result is n itself, and None for a missing path.
C23_MagnitudeIsQuotient ==
    SizeDone =>
        /\ (exists(fs, fileCall.file_path) /\ fileCall.human_readable) =>
              LET n == getsize(fs, fileCall.file_path)
              IN  /\ fileCall.ret = "str"
                  /\ fileCall.value.unit = UnitName(UnitIndex(n))
                  /\ TwiceError(n, fileCall.value) = 0
        /\ SizeRawOrNone

\* C23, amended: the magnitude is n / 1024^i rounded to two decimals, that
\* is, within half a hundredth of it.
C23_MagnitudeIsQuotientToTwoDecimals ==
    SizeDone =>
        /\ (exists(fs, fileCall.file_path) /\ fileCall.human_readable) =>
              LET n == getsize(fs, fileCall.file_path)
              IN  /\ fileCall.ret = "str"
                  /\ fileCall.value.unit = UnitName(UnitIndex(n))
                  /\ fileCall.value.cents \in 0..99
                  /\ TwiceError(n, fileCall.value) <=
                        Scaled(n, UnitIndex(n)).den
        /\ SizeRawOrNone

\* A file of 1024^2 - 1 bytes is reported as 1024.00 KB.
C23_Witness ==
    /\ SizeDone /\ fileCall.human_readable
    /\ fileCall.file_path = SX /\ getsize(fs, SX) = <<1023, 1023>>
    /\ fileCall.value = [whole |-> 1024, cents |-> 0, unit |-> "KB"]

(***************************************************************************)
(* Data module: the claim on the keys of flatten_dict                      *)
(***************************************************************************)
\* C26 as stated: for every leaf reached through the keys k1, ..., kn,
\* whatever the keys are, the empty string included, flatten_dict stores the
\* value of the leaf under k1 sep k2 sep ... sep kn.
C26_LeafUnderJoinedPath ==
    FlattenDone =>
        LET leaves == LeafPaths(dataCall.d, <<>>)
        IN  \A i \in 1..Len(leaves) :
               /\ HasKey(dataCall.out, JoinPath(leaves[i][1], dataCall.sep))
               /\ Lookup(dataCall.out, JoinPath(leaves[i][1], dataCall.sep)) =
                     leaves[i][2]

\* The key of a path when the keys before an empty accumulated path are
\* dropped with their separators: k1 if the path is one key, else the key of
\* k1, ..., k(n-1), then sep and kn, or kn alone if that key is empty.
RECURSIVE PathKey(_, _)
PathKey(path, sep) ==
    IF Len(path) = 1 THEN path[1]
    ELSE LET before == PathKey(Take(path, Len(path) - 1), sep)
         IN  IF before = EmptyStr THEN path[Len(path)]
             ELSE before \o sep \o path[Len(path)]

\* C26, amended: the value of a leaf is stored under the key of its path,
\* which is k1 sep ... sep kn when no key that holds a nested mapping is
\* empty; when several leaves have one key, the value stored is that of the
\* last of them.
C26_LeafUnderPathKey ==
    FlattenDone =>
        LET leaves == LeafPaths(dataCall.d, <<>>)
            key(i) == PathKey(leaves[i][1], dataCall.sep)
        IN  \A i \in 1..Len(leaves) :
               /\ HasKey(dataCall.out, key(i))
               /\ (\A j \in (i + 1)..Len(leaves) : key(j) # key(i)) =>
                     Lookup(dataCall.out, key(i)) = leaves[i][2]
               /\ EmptyStr \notin ParentKeys(dataCall.d) =>
                     key(i) = JoinPath(leaves[i][1], dataCall.sep)

\* {'': {'a': 1}} was flattened with the separator '.': the value is under
\* 'a', and no key '.a' exists.
C26_Witness ==
    /\ FlattenDone
    /\ dataCall.d = <<<<EmptyStr, DictVal(<<<<(<<"a">>), IntVal(1)>>>>)>>>>
    /\ dataCall.sep = <<".">>
    /\ dataCall.out = <<<<(<<"a">>), IntVal(1)>>>>
    /\ ~HasKey(dataCall.out, <<".", "a">>)

(***************************************************************************)
(* PDF module: the claim on a pages_per_file that is not positive          *)
(***************************************************************************)
\* The split_pdf call got past its imports: PyPDF2 was there.
SplitStarted ==
    /\ pdfCall.op = "split_pdf"
    /\ ~pdfCall.raised
    /\ pdfCall.report # "missing_dependency"

\* C29: a split_pdf call with pages_per_file <= 0 that got past its imports
\* never writes a split file and ends with its next step; the output
\* directory exists from then on.  With pages_per_file = 0 it returns False
\* with the general error report; with pages_per_file < 0 and a readable
\* source it returns True with a file count of zero.
C29_NonPositiveStepWritesNothing ==
    /\ [][(pdfCall.op = "split_pdf" /\ pdfCall.pages_per_file <= 0) =>
             pdfDir' = pdfDir]_vars
    /\ [][(pdfCall.op = "split_pdf" /\ pdfCall.pc = "loop"
              /\ pdfCall.pages_per_file <= 0) => pdfCall'.pc = "done"]_vars
    /\ []((SplitStarted /\ pdfCall.pages_per_file <= 0) =>
            /\ pdfDirExists
            /\ pdfDir \in InitPdfDirs
            /\ pdfCall.file_count = 0
            /\ pdfCall.pc = "loop" => ENABLED SplitPdfReturn
            /\ (pdfCall.pc = "done" /\ pdfCall.pages_per_file = 0) =>
                  pdfCall.ret = "False" /\ pdfCall.report = "error"
            /\ (pdfCall.pc = "done" /\ pdfCall.pages_per_file < 0
                   /\ pdfCall.readable) =>
                  pdfCall.ret = "True" /\ pdfCall.report = "success")

\* A split with pages_per_file = -1 of a document of three pages has returned
\* True; the output directory is empty.
C29_Witness ==
    /\ SplitDone
    /\ pdfCall.pages_per_file = -1
    /\ pdfCall.readable /\ pdfCall.total_pages = 3
    /\ pdfCall.ret = "True"
    /\ pdfDirExists /\ pdfDir = <<>>

(***************************************************************************)
(* Text module: the claim on converting twice                              *)
(***************************************************************************)
ConvertedTwice(op) == textCall.op = op /\ textCall.pc = "again"

Without(text, c) == SelectSeq(text, LAMBDA x : x # c)

\* to_kebab_case is not idempotent: of 'a b' it makes 'a-b', and of 'a-b' it
\* makes 'ab'.
KebabLosesItsHyphens ==
    (ConvertedTwice("to_kebab_case") /\ textCall.text = <<"a", " ", "b">>) =>
        /\ textCall.out = <<"a", "-", "b">>
        /\ textCall.again = <<"a", "b">>
        /\ textCall.again # textCall.out

=============================================================================
